---- MODULE Spec2Model ----
(***************************************************************************)
(* SolaSola: the task registry (task_manager.py), the request handlers of  *)
(* app.py that create, query and cancel tasks, the two background workers  *)
(* (process_task_wrapper, install_model_wrapper) and the cache resolver    *)
(* (cache_resolver.py).                                                    *)
(*                                                                         *)
(* Three specifications share the variables:                               *)
(*   Spec          the task registry and the two workers                   *)
(*   SpecManifest  _validate_processing_cache applied to bounded           *)
(*                 directories and manifest contents                       *)
(*   SpecCache     CacheResolver over a modelled output root shared by     *)
(*                 several tasks                                           *)
(* Each specification pins the variables of the others.                    *)
(***************************************************************************)
EXTENDS Integers, Sequences, FiniteSets, TLC

VARIABLES
    TASKS,          \* task_manager.TASKS: task id -> task record
    INSTALL_LOCK,   \* app.INSTALL_LOCK: TRUE while held
    pc,             \* position of each task's worker thread
    job,            \* arguments the worker thread was started with
    loc,            \* locals of the worker thread
    proc,           \* state of the subprocess a task's 'process' handle names
    timer,          \* state of install_model_wrapper's progress thread
    response,       \* the answer of the request that has just returned
    obs,            \* observations of each worker (history, read by no action)
    model_path,     \* the directory get_model_path names: absent, partial, complete
    manifest_path,  \* TRUE when the manifest of the installed model is written
    mf,             \* SpecManifest: the directory handed to the validator
    mfResult,       \* SpecManifest: what the validator answered
    fs,             \* SpecCache: the output root, folder name -> folder
    resolvers,      \* SpecCache: the CacheResolver objects, one per task
    cpc,            \* SpecCache: position of each task in the cache pipeline
    lastResolve,    \* SpecCache: what the last resolve call did (history)
    fpFirst,        \* SpecFingerprint: a job and the fingerprint computed for it
    fpSecond,       \* SpecFingerprint: a later job and its fingerprint
    models_root,    \* SpecSweep: the files under the models root, path -> entry
    manifest_dir,   \* SpecSweep: the manifest directory, file name -> content
    lastSweep,      \* SpecSweep: what the last run of cleanup did (history)
    status_cache,   \* SpecSweep: model_manager._model_status_cache
    lastDelete,     \* SpecSweep: what the last delete request did (history)
    clock,          \* time.time(), in seconds
    reaper,         \* SpecReaper: the thread running cleanup_old_tasks
    wk,             \* SpecReaper: each task's worker and its log_to_ui call
    clients,        \* SSEManager.clients: the list of subscribed queues
    queues,         \* SpecSse: the content of each queue.Queue created
    streams,        \* SpecSse: each connection's generator (SSEManager.stream)
    bc,             \* SpecSse: each thread that calls SSEManager.broadcast
    output_root,    \* SpecDirs: the names of the directories under the output root
    rd,             \* SpecDirs: each task's choice of its result directory
    dl,             \* SpecDownload: the model download under way
    xet,            \* SpecXet: the XetCacheManager, its callers and its thread
    mx              \* SpecMix: the MIDI stages of successive runs on one input

hubVars   == <<model_path, manifest_path>>
taskVars  == <<TASKS, INSTALL_LOCK, pc, job, loc, proc, timer, response, obs, hubVars>>
mfVars    == <<mf, mfResult>>
cacheVars == <<fs, resolvers, cpc, lastResolve>>
fpVars    == <<fpFirst, fpSecond>>
swVars    == <<models_root, manifest_dir, lastSweep, status_cache, lastDelete>>
rpVars    == <<clock, reaper, wk>>
sseVars   == <<clients, queues, streams, bc>>
dirVars   == <<output_root, rd>>
lateVars  == <<dl, xet, mx>>
moreVars  == <<rpVars, sseVars, dirVars, lateVars>>
extraVars == <<fpVars, swVars, moreVars>>
vars      == <<taskVars, mfVars, cacheVars, extraVars>>

None == "None"
Range(s) == {s[k] : k \in DOMAIN s}

\* No answer of task_status is pending.
NoResponse == [status |-> None, results |-> None, has_results |-> FALSE]

\* A step of the task registry or of a worker: the answer of an earlier status
\* query has been delivered, and the validator and the cache are not involved.
TaskAndHub == response' = NoResponse /\ UNCHANGED <<mfVars, cacheVars, extraVars>>
TaskOnly == TaskAndHub /\ UNCHANGED hubVars

(***************************************************************************)
(* task_manager.py and ui_log_manager.py                                   *)
(***************************************************************************)

TerminalStatuses == {"completed", "failed", "cancelled"}

\* update_detailed_status(task_id, stage_index, sub_stage_index,
\* sub_stage_progress, message, status=None) applied to the task dict T.
UpdateDetailedStatus(T, t, stage, sub, prog, message, status) ==
    IF t \in DOMAIN T
    THEN LET s1 == IF T[t].status = "starting" THEN "running" ELSE T[t].status
         IN [T EXCEPT ![t] = [@ EXCEPT
                !.status = IF status # None THEN status ELSE s1,
                !.progress_details = <<stage, sub, prog>>,
                !.current_step = message]]
    ELSE T

\* update_status(task_id, progress, message, status=None)
UpdateStatus(T, t, progress, message, status) ==
    IF t \in DOMAIN T
    THEN [T EXCEPT ![t] = [@ EXCEPT
                !.progress = progress,
                !.current_step = message,
                !.status = IF status # None THEN status ELSE @]]
    ELSE T

\* check_for_cancellation(task_id) raises InterruptedError exactly when this holds.
CancellationPending(T, t) ==
    t \in DOMAIN T /\ T[t].cancel_requested

\* ui_log_manager.log_to_ui(task_id, message, icon, type, target); the icon
\* and the timestamp of the entry are not modelled.
LogToUi(T, t, message, type, target) ==
    IF t \in DOMAIN T
    THEN [T EXCEPT ![t].ui_logs =
            Append(@, [message |-> message, type |-> type, target |-> target])]
    ELSE T

\* The recurring pair of calls: one entry for the toast, one for the log.
LogPair(T, t, toast, detail, type) ==
    LogToUi(LogToUi(T, t, toast, type, "toast"), t, detail, type, "log")

\* The task record start_processing and manage_model store.
NewTask(isInstall) ==
    [status |-> "starting", progress |-> 0,
     current_step |-> IF isInstall THEN "Preparing to download model..."
                      ELSE "Initializing...",
     results |-> None, cancel_requested |-> FALSE, ui_logs |-> <<>>,
     process |-> None, progress_details |-> None, model_info |-> isInstall,
     input_audio |-> 0, timestamp |-> clock]

(***************************************************************************)
(* Bounds and the inputs the model draws from                              *)
(***************************************************************************)

\* Task ids (uuid4 in the code: never reused).  A task is submitted either as
\* a processing job or as a model installation; tasks share nothing but the
\* TASKS dictionary, in which every access is keyed by the task's own id.
TaskIds == {"t1"}

\* Most lines of subprocess output read while a subprocess runs.
MaxLines == 1
\* Most stems found in the stems directory by convert_stems_to_midi.
MaxStems == 1
\* The three check points of process_audio before Demucs is started
\* (processing_logic.py lines 638, 648, 657).
PrepChecks == 3
\* The iterations of the "Verifying" loop of install_model_wrapper.
VerifySteps == 5

\* Jobs as start_processing hands them to the worker: the processing mode,
\* the number of valid audio files, whether a single audio file parses as a
\* full mix, whether MIDI and lyrics files were classified, and the duration
\* of each audio file in tenths of a second, and the number of non-empty
\* lines of the lyrics file.
JobInputs ==
    { [mode |-> "abc", audio |-> 1, full_mix |-> TRUE, midi |-> FALSE, lyrics |-> FALSE, lyric_lines |-> 0,
       durations |-> <<1800>>],
      [mode |-> "abc", audio |-> 1, full_mix |-> TRUE, midi |-> FALSE, lyrics |-> TRUE, lyric_lines |-> 2,
       durations |-> <<1800>>],
      [mode |-> "abc", audio |-> 2, full_mix |-> FALSE, midi |-> FALSE, lyrics |-> FALSE, lyric_lines |-> 0,
       durations |-> <<1800, 1815>>],
      [mode |-> "abc", audio |-> 2, full_mix |-> FALSE, midi |-> FALSE, lyrics |-> FALSE, lyric_lines |-> 0,
       durations |-> <<1800, 1830>>],
      [mode |-> "abc", audio |-> 0, full_mix |-> FALSE, midi |-> TRUE, lyrics |-> FALSE, lyric_lines |-> 0,
       durations |-> << >>],
      [mode |-> "lyrics_only", audio |-> 0, full_mix |-> FALSE, midi |-> FALSE, lyrics |-> TRUE, lyric_lines |-> 2,
       durations |-> << >>] }

NoJob == [mode |-> None, audio |-> 0, full_mix |-> FALSE, midi |-> FALSE, lyrics |-> FALSE, lyric_lines |-> 0,
          durations |-> << >>]

\* Line 198: the default duration of a lyrics-only job, in milliseconds.
DefaultLyricsDuration == 210000

\* The length of the longest MIDI file of a job without audio, in
\* milliseconds (line 76).
MidiLength == 180000

\* Most non-empty lines of a lyrics file.
MaxLyricLines == 9

\* Lyrics-only jobs: a text of n non-empty lines and no music file, and one
\* with an audio file of 180 seconds.
LyricsJobs ==
    { [mode |-> "lyrics_only", audio |-> 0, full_mix |-> FALSE, midi |-> FALSE, lyrics |-> TRUE,
       lyric_lines |-> n, durations |-> << >>] : n \in 0..MaxLyricLines }
    \cup
    { [mode |-> "lyrics_only", audio |-> 1, full_mix |-> TRUE, midi |-> FALSE, lyrics |-> TRUE,
       lyric_lines |-> 2, durations |-> <<1800>>] }

\* _validate_and_get_duration lines 59 and 66-80: the duration of the
\* project in milliseconds: that of the first audio file, else the longest
\* MIDI length, else 0.
ValidateAndGetDuration(j) ==
    IF j.audio > 0 THEN j.durations[1] * 100
    ELSE IF j.midi THEN MidiLength
    ELSE 0

\* srt_parser.py srt_time_format (lines 5-12) applied to seconds = num / den
\* milliseconds: the time as the SRT text carries it, whole milliseconds,
\* the rest cut off.
SrtTimeFormat(num, den) == num \div den

\* A variant of generate_srt_from_txt that puts the whole text into one
\* segment.
GenerateSrtOneSegment(num_lines, total_duration) ==
    IF num_lines = 0 \/ total_duration <= 0 THEN << >>
    ELSE <<[start |-> 0, end |-> total_duration]>>

\* srt_parser.py generate_srt_from_txt (lines 51-74) for a text of num_lines
\* non-empty lines: line i starts at i * (total_duration / num_lines) and
\* ends where the next one starts, the last one at total_duration.
GenerateSrtFromTxt(num_lines, total_duration) ==
    IF num_lines = 0 \/ total_duration <= 0 THEN << >>
    ELSE [i \in 1..num_lines |->
            [start |-> SrtTimeFormat((i - 1) * total_duration, num_lines),
             end   |-> IF i < num_lines
                       THEN SrtTimeFormat(i * total_duration, num_lines)
                       ELSE SrtTimeFormat(total_duration, 1)]]

\* Line 57: the tolerance of 1.5 seconds, in tenths of a second.
DurationTolerance == 15

\* A variant of the test of line 57 that finds no two files too far apart.
DurationsNeverDiffer(durations) == FALSE

\* Line 57: len(durations) > 1 and (max(durations) - min(durations) > 1.5).
DurationsDiffer(durations) ==
    /\ Len(durations) > 1
    /\ \E i, k \in DOMAIN durations :
          /\ \A n \in DOMAIN durations : durations[n] <= durations[i] /\ durations[k] <= durations[n]
          /\ durations[i] - durations[k] > DurationTolerance

\* song_analyzer.py: the keys of the dictionaries that analyze_audio_features
\* (lines 149-203) and analyze_midi_features (lines 226-247) return, the
\* fields of the profile that create_song_profile fills from the analyses
\* (lines 280-294), and the three analysis steps of _process_song.
AudioKeys == {"Tempo", "Song Structure", "chord_grid_text"}
MidiKeys == {"Key", "Time Signature"}
ProfileFields == {"Genre - AI Estimated", "Tempo", "Key", "Time Signature", "Song Structure"}
AnalysisSteps == {"genre", "audio", "midi"}

\* A dictionary without any of the keys (lines 187-188), and the profile not
\* yet made.
NoAnalysis(keys) == [k \in keys |-> "absent"]
NoProfile == [f \in ProfileFields |-> "unset"]

\* What analyze_audio_features can end with: every feature found ("ok"); the
\* structure analysis failed and was skipped (line 204, "no_structure");
\* librosa failed after the tempo was found (line 209, "after_tempo") or
\* before (lines 209-211, "no_tempo"); an exception left the function
\* ("raise").
AudioOutcomes == {"ok", "no_structure", "after_tempo", "no_tempo", "raise"}

\* analyze_audio_features lines 141-213: the dictionary returned.
AnalyzeAudioFeatures(outcome) ==
    [k \in AudioKeys |->
        CASE outcome = "ok" -> "value"
          [] outcome = "no_structure" -> IF k = "Song Structure" THEN "absent" ELSE "value"
          [] outcome = "after_tempo" -> IF k = "Tempo" THEN "value" ELSE "absent"
          [] outcome = "no_tempo" -> IF k = "Tempo" THEN "Not Analyzed" ELSE "absent"
          [] OTHER -> "absent"]

\* What analyze_midi_features can end with: both features found ("ok"),
\* music21 could not parse the file (line 224, "unparsed"), the key analysis
\* failed (line 237, "no_key"), the time signature analysis failed (line
\* 245, "no_time_signature").
MidiOutcomes == {"ok", "unparsed", "no_key", "no_time_signature"}

\* analyze_midi_features lines 215-249: the dictionary returned.
AnalyzeMidiFeatures(outcome) ==
    [k \in MidiKeys |->
        CASE outcome = "ok" -> "value"
          [] outcome = "unparsed" -> "Not Analyzed"
          [] outcome = "no_key" -> IF k = "Key" THEN "Not Analyzed" ELSE "value"
          [] OTHER -> IF k = "Time Signature" THEN "Not Analyzed" ELSE "value"]

\* _process_song lines 349-362 and create_song_profile lines 280-294: the
\* tempo of the Mix score replaces that of the audio analysis; an empty genre
\* list and every missing key give "Not Analyzed".
\* genre: whether predicted_genres is non-empty; mix_tempo: whether the Mix
\* score carries a tempo.
CreateSongProfile(genre, audio, midi, mix_tempo) ==
    LET get(d, k) == IF d[k] = "absent" THEN "Not Analyzed" ELSE d[k]
    IN [f \in ProfileFields |->
           CASE f = "Genre - AI Estimated" -> IF genre THEN "value" ELSE "Not Analyzed"
             [] f = "Tempo" -> IF mix_tempo THEN "value" ELSE get(audio, "Tempo")
             [] f = "Song Structure" -> get(audio, f)
             [] OTHER -> get(midi, f)]

\* Locals of process_task_wrapper and _process_song.
InitLoc ==
    [total_songs |-> 0, song_num |-> 0, final_results |-> 0,
     result_entry |-> FALSE, pa_step |-> 0, lines |-> 0,
     n_stems |-> 0, stem_i |-> 0, midi_made |-> FALSE, results |-> << >>,
     failed_printed |-> 0, step |-> 0,
     durations |-> << >>, audio_duration |-> 0, parsed_segments |-> << >>,
     predicted_genres |-> FALSE,
     audio_analysis_results |-> NoAnalysis(AudioKeys),
     midi_analysis_results |-> NoAnalysis(MidiKeys),
     mix_abc |-> FALSE, profile |-> NoProfile]

\* The asset types in the order of the pipeline.
AssetOrder == <<"stems", "midi", "abc_files", "chords">>

InitObs ==
    [raised |-> FALSE, raisedInSong |-> FALSE, loggedAsError |-> FALSE,
     loopFinished |-> FALSE, lateCancel |-> FALSE,
     stage |-> [a \in Range(AssetOrder) |-> "idle"],
     steps |-> [s \in AnalysisSteps |-> "idle"]]

\* History of a task, written by no code: a check point raised
\* InterruptedError (raised), it did so inside _process_song (raisedInSong),
\* the handler that caught it appended an error entry (loggedAsError), the
\* loop over the songs ran to its end (loopFinished), a cancel request arrived
\* when the status was already terminal (lateCancel); for each asset type
\* how far its stage has come (stage): "idle", resolved to a "hit", to a
\* "miss" (the stage is running), resolve has raised ("raise"), the stage has
\* run to its end and the call of write_manifest_for_step has returned
\* ("written"), or the stage has ended without that call ("done").
ObsRaise(t, inSong, logged) ==
    [obs EXCEPT ![t] = [@ EXCEPT !.raised = TRUE,
                                 !.raisedInSong = @ \/ inSong,
                                 !.loggedAsError = @ \/ logged]]

ObsStage(O, t, a, s) == [O EXCEPT ![t].stage[a] = s]

\* History: how the analysis step s of task t has ended; "idle" while it
\* has not been called.
ObsStep(O, t, s, how) == [O EXCEPT ![t].steps[s] = how]

(***************************************************************************)
(* app.py: the request handlers                                            *)
(***************************************************************************)

\* start_processing: store a new task record and start process_task_wrapper
\* in a background thread.
StartProcessing(t, j) ==
    /\ pc[t] = "unborn"
    /\ TASKS' = (t :> NewTask(FALSE)) @@ TASKS
    /\ job' = [job EXCEPT ![t] = j]
    /\ pc' = [pc EXCEPT ![t] = "pt_begin"]
    /\ UNCHANGED <<INSTALL_LOCK, loc, proc, timer, obs>>
    /\ TaskOnly

\* A faulty variant of manage_model: the lock is taken without being tested.
ManageModelInstallNoTest(t) ==
    /\ pc[t] = "unborn"
    /\ INSTALL_LOCK' = TRUE
    /\ TASKS' = (t :> NewTask(TRUE)) @@ TASKS
    /\ pc' = [pc EXCEPT ![t] = "im_begin"]
    /\ UNCHANGED <<job, loc, proc, timer, obs>>
    /\ TaskOnly

\* manage_model, action 'install': refused while INSTALL_LOCK is held;
\* otherwise take the lock, store a new task record and start
\* install_model_wrapper in a background thread.
ManageModelInstall(t) ==
    /\ pc[t] = "unborn"
    /\ ~INSTALL_LOCK
    /\ INSTALL_LOCK' = TRUE
    /\ TASKS' = (t :> NewTask(TRUE)) @@ TASKS
    /\ pc' = [pc EXCEPT ![t] = "im_begin"]
    /\ UNCHANGED <<job, loc, proc, timer, obs>>
    /\ TaskOnly

\* manage_model, action 'install', when no installation is started: the
\* lock is held by another installation ("busy": the answer is 'waiting'),
\* or the request names no repo_id ("invalid": the lock is taken, the
\* ValueError of line 250 is caught at line 290 and the lock is released
\* again).  No task record is stored and no thread is started.
ManageModelRefused(reason) ==
    /\ reason = "busy" <=> INSTALL_LOCK
    /\ response' = [status |-> IF reason = "busy" THEN "waiting" ELSE "error",
                    results |-> None, has_results |-> FALSE]
    /\ UNCHANGED <<TASKS, INSTALL_LOCK, pc, job, loc, proc, timer, obs, hubVars>>
    /\ UNCHANGED <<mfVars, cacheVars, extraVars>>

\* task_status: the response holds a 'results' key only for a completed task.
TaskStatus(t) ==
    /\ response' =
         IF t \in DOMAIN TASKS
         THEN IF TASKS[t].status = "completed"
              THEN [status |-> "completed", results |-> TASKS[t].results, has_results |-> TRUE]
              ELSE [status |-> TASKS[t].status, results |-> None, has_results |-> FALSE]
         ELSE [status |-> "not_found", results |-> None, has_results |-> FALSE]
    /\ UNCHANGED <<TASKS, INSTALL_LOCK, pc, job, loc, proc, timer, obs, hubVars>>
    /\ UNCHANGED <<mfVars, cacheVars, extraVars>>

\* A faulty variant of cancel_task: the handler also writes the status itself.
CancelTaskSetsStatus(t) ==
    /\ t \in DOMAIN TASKS
    /\ TASKS' = [TASKS EXCEPT ![t].cancel_requested = TRUE, ![t].status = "cancelled"]
    /\ proc' = IF TASKS[t].process # None /\ proc[t] = "live"
               THEN [proc EXCEPT ![t] = "killed"] ELSE proc
    /\ obs' = [obs EXCEPT ![t].lateCancel = @ \/ TASKS[t].status \in TerminalStatuses]
    /\ UNCHANGED <<INSTALL_LOCK, pc, job, loc, timer>>
    /\ TaskOnly

\* A faulty variant of cancel_task: the flag is set and the subprocess is left
\* running.
CancelTaskFlagOnly(t) ==
    /\ t \in DOMAIN TASKS
    /\ TASKS' = [TASKS EXCEPT ![t].cancel_requested = TRUE]
    /\ obs' = [obs EXCEPT ![t].lateCancel = @ \/ TASKS[t].status \in TerminalStatuses]
    /\ UNCHANGED <<INSTALL_LOCK, pc, job, loc, timer, proc>>
    /\ TaskOnly

\* cancel_task: set the flag; a live subprocess named by the task's 'process'
\* handle is terminated (and killed after 5 seconds).
CancelTask(t) ==
    /\ t \in DOMAIN TASKS
    /\ TASKS' = [TASKS EXCEPT ![t].cancel_requested = TRUE]
    /\ proc' = IF TASKS[t].process # None /\ proc[t] = "live"
               THEN [proc EXCEPT ![t] = "killed"] ELSE proc
    /\ obs' = [obs EXCEPT ![t].lateCancel = @ \/ TASKS[t].status \in TerminalStatuses]
    /\ UNCHANGED <<INSTALL_LOCK, pc, job, loc, timer>>
    /\ TaskOnly

\* A subprocess ends by itself, with exit status 0 or not.
ProcExit(t, how) ==
    /\ proc[t] = "live"
    /\ proc' = [proc EXCEPT ![t] = how]
    /\ model_path' = IF TASKS[t].model_info /\ how = "exited_ok" THEN "complete"
                     ELSE model_path
    /\ UNCHANGED <<TASKS, INSTALL_LOCK, pc, job, loc, timer, obs, manifest_path>>
    /\ TaskAndHub

\* sub_process/install_model.py: the download subprocess of an installation
\* writes its first files into the model directory.
DownloadStep(t) ==
    /\ proc[t] = "live"
    /\ TASKS[t].model_info
    /\ model_path = "absent"
    /\ model_path' = "partial"
    /\ UNCHANGED <<TASKS, INSTALL_LOCK, pc, job, loc, proc, timer, obs, manifest_path>>
    /\ TaskAndHub

(***************************************************************************)
(* processing_logic.py: process_task_wrapper and _process_song             *)
(***************************************************************************)

\* except InterruptedError (line 555): the outermost handler.
HandlerCancelled(T, t) ==
    UpdateDetailedStatus(T, t, -1, -1, -1, "Processing cancelled by user.", "cancelled")

\* except Exception as e (line 557): the outermost handler; str(e) becomes
\* the current step.
HandlerRaised(T, t, e) ==
    LogPair(UpdateDetailedStatus(T, t, -1, -1, -1, e, "failed"),
            t, "A critical error occurred.", "A critical error occurred: e", "error")

\* The outermost handler for an exception whose text the model leaves open.
HandlerFailed(T, t) == HandlerRaised(T, t, "error")

\* except Exception as song_e (line 543): the song is given up, the loop goes on.
HandlerSongFailed(T, t) ==
    LogPair(T, t, "Failed to process title.", "Failed to process title: e", "error")

\* except Exception (line 276) of _process_song's audio block.
HandlerAudioBlock(T, t) ==
    LogPair(T, t, "Audio processing failed.", "Audio processing failed for title: e", "error")

\* The worker of t moves to position p with TASKS and loc as given.
Goto(t, p, T, l) ==
    /\ pc' = [pc EXCEPT ![t] = p]
    /\ TASKS' = T
    /\ loc' = [loc EXCEPT ![t] = l]

\* Lines 421-440: the first detailed progress update.
PT_Begin(t) ==
    /\ pc[t] = "pt_begin"
    /\ Goto(t, "pt_parse_check",
            UpdateDetailedStatus(TASKS, t, 1, 1, 33, "Parsing filenames...", None), loc[t])
    /\ UNCHANGED <<INSTALL_LOCK, job, proc, timer, obs>>
    /\ TaskOnly

\* Lines 441-464: the check point after filename parsing, the grouping into
\* one project, _validate_and_get_duration and the hardware detection.
\* dur: what the duration validation meets: a file that librosa cannot read
\* ("unreadable"), or the outcome of the test of line 57 on the durations read.
PT_ParseCheck(t, dur) ==
    /\ pc[t] = "pt_parse_check"
    /\ IF CancellationPending(TASKS, t)
       THEN /\ dur = "ok"
            /\ Goto(t, "pt_finally", HandlerCancelled(TASKS, t), loc[t])
            /\ obs' = ObsRaise(t, FALSE, FALSE)
       ELSE LET j == job[t]
                l1 == [loc[t] EXCEPT !.total_songs = 1,
                                     !.durations = IF dur = "unreadable" THEN << >>
                                                   ELSE j.durations,
                                     !.audio_duration = IF dur = "ok"
                                                        THEN ValidateAndGetDuration(j)
                                                        ELSE 0]
                T1 == IF j.audio > 0
                      THEN LogPair(TASKS, t, "Validating audio files...",
                                   "Validating audio file durations and integrity...", "info")
                      ELSE IF j.midi
                      THEN LogPair(TASKS, t, "Calculating duration...",
                                   "No audio files found. Calculating duration from MIDI files...", "info")
                      ELSE TASKS
            IN /\ obs' = obs
               /\ CASE dur = "mismatch" ->
                         /\ DurationsDiffer(j.durations)
                         /\ Goto(t, "pt_finally",
                                 HandlerRaised(LogToUi(T1, t, "Error: Files have significantly different durations.", "error", "both"),
                                               t, "Audio files have significantly different durations. Please process one song at a time."),
                                 l1)
                    [] dur = "unreadable" ->
                         /\ j.audio > 0 \/ j.midi
                         /\ Goto(t, "pt_finally", HandlerFailed(T1, t), l1)
                    [] dur = "ok" ->
                         /\ ~DurationsDiffer(j.durations)
                         /\ Goto(t, "pt_song",
                              IF j.mode = "abc"
                              THEN UpdateDetailedStatus(T1, t, 1, 2, 66, "Detecting hardware...", None)
                              ELSE T1,
                              l1)
    /\ UNCHANGED <<INSTALL_LOCK, job, proc, timer>>
    /\ TaskOnly

\* Lines 466-524: the head of the loop over songs_to_process and the set-up of
\* one song; when the loop is exhausted control passes to line 549.
\* setup: "ok", or "error" for an exception raised before _process_song
\* (hashing the audio file, creating the result directory).
PT_Song(t, setup) ==
    /\ pc[t] = "pt_song"
    /\ LET j == job[t] l == loc[t] IN
       IF l.song_num >= l.total_songs
       THEN /\ setup = "ok"
            /\ Goto(t, "pt_after_loop", TASKS, l)
            /\ obs' = [obs EXCEPT ![t].loopFinished = TRUE]
       ELSE LET l1 == [l EXCEPT !.song_num = @ + 1, !.result_entry = FALSE]
                T1 == LogToUi(TASKS, t, "Starting analysis for title", "info", "both")
                T2 == LogToUi(T1, t, "Processing Mode: label", "success", "both")
                T3 == IF j.mode = "abc"
                      THEN LogToUi(T2, t, "Processing hardware: device", "info", "both")
                      ELSE T2
                T4 == LogToUi(T3, t, "File validation passed", "success", "both")
                T5 == [T4 EXCEPT ![t].input_audio = j.audio]
                T6 == LogToUi(LogToUi(T5, t, "Results will be saved to...", "success", "toast"),
                              t, "Result folder: name", "info", "log")
            IN /\ obs' = obs
               /\ CASE setup = "error" -> Goto(t, "pt_song", HandlerSongFailed(T4, t), l1)
                    [] setup = "ok"    -> Goto(t, "ps_lyrics", T6, l1)
    /\ UNCHANGED <<INSTALL_LOCK, job, proc, timer>>
    /\ TaskOnly

\* _process_song lines 197-222: the default duration, the temporary mix of
\* several audio files, the progress update and process_lyrics.
\* mix: whether create_mix_audio succeeds.
PS_Lyrics(t, mix) ==
    /\ pc[t] = "ps_lyrics"
    /\ LET j == job[t]
           defaulted == loc[t].audio_duration = 0 /\ j.mode = "lyrics_only" /\ j.lyrics
           l1 == [loc[t] EXCEPT !.audio_duration = IF defaulted THEN DefaultLyricsDuration
                                                   ELSE @]
           T1 == IF defaulted
                 THEN LogPair(TASKS, t, "Using default duration for lyrics.",
                              "No music file provided. Using default duration (3m 30s) for lyrics split.", "info")
                 ELSE TASKS
           T2 == IF j.audio > 1
                 THEN LET Tm == LogPair(T1, t, "Creating temporary mix...",
                                        "Creating temporary mix from stems for analysis...", "info")
                      IN IF mix THEN Tm
                         ELSE LogPair(Tm, t, "Mix creation failed.",
                                      "Could not create a temporary mix. Analysis will be based on the first stem only.", "warning")
                 ELSE T1
           T3 == UpdateDetailedStatus(T2, t, 1, 3, 100, "Processing lyrics...", None)
           T4 == IF j.lyrics
                 THEN LogPair(T3, t, "Processing lyrics...",
                              "Distributing lyrics evenly across the song's duration.", "info")
                 ELSE LogPair(T3, t, "Proceeding with music-only analysis.",
                              "Lyrics file not found. Proceeding with music-only analysis.", "info")
       IN /\ (j.audio <= 1 => mix)
          /\ Goto(t, "ps_lyrics_check", T4, l1)
    /\ UNCHANGED <<INSTALL_LOCK, job, proc, timer, obs>>
    /\ TaskOnly

\* Where _process_song goes after the lyrics block (lines 236, 249).
AfterLyrics(j) ==
    IF j.mode = "abc" /\ j.audio > 0 THEN "ps_genre"
    ELSE IF j.mode = "abc" THEN "ps_stems"
    ELSE "ps_profile"

\* Lines 223-233: the check point after process_lyrics.  It lies inside
\* "try: ... except Exception", and InterruptedError derives from Exception:
\* the handler of line 231 catches it, logs an error and returns None.
\* readable: whether the lyrics file could be read; when it could, the
\* segments are those of generate_srt_from_txt (process_lyrics line 606).
PS_LyricsCheck(t, readable) ==
    /\ pc[t] = "ps_lyrics_check"
    /\ IF CancellationPending(TASKS, t)
       THEN /\ readable
            /\ Goto(t, "pt_song_done",
                    LogToUi(TASKS, t, "Lyrics generation failed for title: e", "error", "both"),
                    [loc[t] EXCEPT !.result_entry = FALSE])
            /\ obs' = ObsRaise(t, TRUE, TRUE)
       ELSE /\ (~job[t].lyrics => readable)
            /\ Goto(t, AfterLyrics(job[t]),
                    IF job[t].lyrics /\ ~readable
                    THEN LogToUi(TASKS, t, "Could not process the provided lyrics file.", "warning", "both")
                    ELSE TASKS,
                    [loc[t] EXCEPT !.parsed_segments =
                        IF job[t].lyrics /\ readable
                        THEN GenerateSrtFromTxt(job[t].lyric_lines, loc[t].audio_duration)
                        ELSE << >>])
            /\ obs' = obs
    /\ UNCHANGED <<INSTALL_LOCK, job, proc, timer>>
    /\ TaskOnly

\* Lines 238-239 and _run_genre_classification lines 88-107: the progress
\* update, the model status and the start of the classifier subprocess.
\* model: "installed", "missing", or "error" (get_all_models_status raises,
\* which the handler of line 243 catches).
PS_Genre(t, model) ==
    /\ pc[t] = "ps_genre"
    /\ LET T1 == UpdateDetailedStatus(TASKS, t, 2, 1, 50, "Analyzing genre...", None) IN
       CASE model = "installed" -> Goto(t, "ps_genre_sub", T1, loc[t])
         [] model = "missing" ->
              Goto(t, "ps_genre_check",
                   LogPair(T1, t, "Genre model not installed.",
                           "Genre analysis model is not installed. Skipping.", "warning"),
                   loc[t])
         [] model = "error" ->
              Goto(t, "ps_stems",
                   LogPair(T1, t, "Music analysis failed.", "Music pre-analysis failed for title: e", "error"),
                   loc[t])
    /\ obs' = CASE model = "installed" -> obs
                [] model = "missing" -> ObsStep(obs, t, "genre", "not_installed")
                [] model = "error" -> ObsStep(obs, t, "genre", "raised")
    /\ UNCHANGED <<INSTALL_LOCK, job, proc, timer>>
    /\ TaskOnly

\* _run_genre_classification lines 108-133: the check point after the
\* classifier subprocess.  "except Exception" (line 131) swallows the
\* InterruptedError and the function returns [].
\* rc: how the subprocess ended: "ok" with a list of genres, "failed" with a
\* non-zero exit code (line 110), "no_result" with an exit code of zero and
\* a result file that is unreadable or carries an error (lines 118-123, 131).
PS_GenreSub(t, rc) ==
    /\ pc[t] = "ps_genre_sub"
    /\ IF CancellationPending(TASKS, t)
       THEN /\ rc = "ok"
            /\ Goto(t, "ps_genre_check", TASKS, loc[t])
            /\ obs' = ObsStep(ObsRaise(t, TRUE, FALSE), t, "genre", "cancelled")
       ELSE /\ obs' = ObsStep(obs, t, "genre", rc)
            /\ CASE rc = "ok" ->
                      Goto(t, "ps_genre_check", TASKS, [loc[t] EXCEPT !.predicted_genres = TRUE])
                 [] rc = "failed" ->
                      Goto(t, "ps_genre_check",
                           LogPair(TASKS, t, "Genre analysis failed.",
                                   "Genre analysis failed and was skipped.", "warning"),
                           loc[t])
                 [] rc = "no_result" -> Goto(t, "ps_genre_check", TASKS, loc[t])
    /\ UNCHANGED <<INSTALL_LOCK, job, proc, timer>>
    /\ TaskOnly

\* Lines 240-246: the check point after genre classification, inside
\* "try: ... except Exception" (line 243): a raised InterruptedError is logged
\* as a failed music analysis and processing goes on.
\* feat: what analyze_audio_features ends with.
PS_GenreCheck(t, feat) ==
    /\ pc[t] = "ps_genre_check"
    /\ LET Tfail(T) == LogPair(T, t, "Music analysis failed.",
                               "Music pre-analysis failed for title: e", "error") IN
       IF CancellationPending(TASKS, t)
       THEN /\ feat = "ok"
            /\ Goto(t, "ps_stems", Tfail(TASKS), loc[t])
            /\ obs' = ObsRaise(t, TRUE, TRUE)
       ELSE LET T1 == UpdateDetailedStatus(TASKS, t, 2, 2, 50, "Analyzing structure...", None) IN
            /\ Goto(t, "ps_stems", IF feat # "raise" THEN T1 ELSE Tfail(T1),
                    [loc[t] EXCEPT !.audio_analysis_results = AnalyzeAudioFeatures(feat)])
            /\ obs' = ObsStep(obs, t, "audio", feat)
    /\ UNCHANGED <<INSTALL_LOCK, job, proc, timer>>
    /\ TaskOnly

\* cache_resolver.py lines 95-105 and 123-137: the ui_logs entries of one
\* resolve call that ends with the given action (the disk side of resolve is
\* modelled in SpecCache).
ResolveLogs(T, t, asset, action) ==
    IF action = "USE_EXISTING"
    THEN LogPair(T, t, "Found previously analyzed files. Re-using.",
                 "Re-using previously analyzed files from project", "info")
    ELSE IF asset = "stems" /\ t \in DOMAIN T /\ T[t].input_audio > 1
    THEN LogPair(T, t, "Processing provided stems...",
                 "Multiple audio files detected. Treating as pre-separated stems.", "info")
    ELSE LogPair(T, t, "Starting step for asset", "Processing asset files...", "info")

\* What a resolve call can end with: a hit, a miss, or an exception that
\* escapes _validate_processing_cache (see ValidateProcessingCache).
ResolveOutcomes == {"USE_EXISTING", "CREATE_NEW", "RAISE"}

\* A faulty variant of lines 252-261: on a miss the MIDI stage is entered
\* without waiting for the stem separation.
PS_StemsNoWait(t, res, env) ==
    /\ pc[t] = "ps_stems"
    /\ res = "CREATE_NEW" /\ env = "ok"
    /\ Goto(t, "ps_midi", ResolveLogs(TASKS, t, "stems", res), loc[t])
    /\ obs' = ObsStage(obs, t, "stems", "miss")
    /\ UNCHANGED <<INSTALL_LOCK, job, proc, timer>>
    /\ TaskOnly

\* Lines 252-261 and process_audio lines 613-637, 717-725: resolve('stems');
\* on a miss the progress update and the start of process_audio.
\* res: the outcome of resolve; env: "ok" or "error" for what process_audio
\* meets before its first check point (or while copying provided stems).
PS_Stems(t, res, env) ==
    /\ pc[t] = "ps_stems"
    /\ LET j == job[t] IN
       CASE res = "RAISE" ->
              /\ env = "ok"
              /\ Goto(t, "pt_song_done", HandlerAudioBlock(TASKS, t), loc[t])
         [] res = "USE_EXISTING" ->
              /\ env = "ok"
              /\ Goto(t, "ps_midi", ResolveLogs(TASKS, t, "stems", res), loc[t])
         [] res = "CREATE_NEW" ->
              LET T1 == UpdateDetailedStatus(ResolveLogs(TASKS, t, "stems", res), t,
                                             3, 1, 10, "Preparing separation model...", None)
              IN IF j.midi \/ env = "error" \/ j.audio = 0
                 THEN \* NotImplementedError, a failed subprocess or copy, or no stem produced
                      /\ (j.midi \/ j.audio = 0 => env = "ok")
                      /\ Goto(t, "pt_song_done", HandlerAudioBlock(T1, t), loc[t])
                 ELSE IF j.audio = 1 /\ j.full_mix
                 THEN Goto(t, "ps_pa_check", T1, [loc[t] EXCEPT !.pa_step = 1])
                 ELSE Goto(t, "ps_midi", T1, loc[t])
    /\ obs' = ObsStage(obs, t, "stems",
                        CASE res = "RAISE" -> "raise"
                          [] res = "USE_EXISTING" -> "hit"
                          [] OTHER ->
                               \* provided stems are copied and their manifest
                               \* written at once (lines 255-260)
                               IF /\ ~(job[t].midi \/ env = "error" \/ job[t].audio = 0)
                                  /\ ~(job[t].audio = 1 /\ job[t].full_mix)
                               THEN "written" ELSE "miss")
    /\ UNCHANGED <<INSTALL_LOCK, job, proc, timer>>
    /\ TaskOnly

\* process_audio lines 638-665: the check points after the state cleanup
\* (638), after the start of the download watcher (648) and after the model
\* preparation and the stop of the watcher (657); each follows a blocking
\* call.  A raised InterruptedError leaves process_audio and is caught by
\* "except Exception" at line 276.  After the third, Demucs is started and
\* its handle stored in the task.
\* env: "ok", or "error" for a failing subprocess or model load.
PS_PaCheck(t, env) ==
    /\ pc[t] = "ps_pa_check"
    /\ IF CancellationPending(TASKS, t)
       THEN /\ env = "ok"
            /\ Goto(t, "pt_song_done", HandlerAudioBlock(TASKS, t), loc[t])
            /\ obs' = ObsRaise(t, TRUE, TRUE)
            /\ proc' = proc
       ELSE /\ obs' = obs
            /\ CASE env = "error" ->
                      /\ Goto(t, "pt_song_done", HandlerAudioBlock(TASKS, t), loc[t])
                      /\ proc' = proc
                 [] env = "ok" /\ loc[t].pa_step < PrepChecks ->
                      /\ Goto(t, "ps_pa_check", TASKS, [loc[t] EXCEPT !.pa_step = @ + 1])
                      /\ proc' = proc
                 [] env = "ok" /\ loc[t].pa_step >= PrepChecks ->
                      /\ Goto(t, "ps_demucs", [TASKS EXCEPT ![t].process = "demucs_proc"],
                              [loc[t] EXCEPT !.lines = 0])
                      /\ proc' = [proc EXCEPT ![t] = "live"]
    /\ UNCHANGED <<INSTALL_LOCK, job, timer>>
    /\ TaskOnly

\* process_audio lines 670-691: one line of Demucs output is read: a progress
\* update when the line parses as one, then the check point of line 687.
\* parsed: whether the line yields a progress update.
PS_DemucsLine(t, parsed) ==
    /\ pc[t] = "ps_demucs"
    /\ proc[t] = "live"
    /\ loc[t].lines < MaxLines
    /\ LET T1 == IF parsed
                 THEN UpdateDetailedStatus(TASKS, t, 4, 1, 50, "Separating stems...", None)
                 ELSE TASKS
       IN IF CancellationPending(T1, t)
          THEN /\ Goto(t, "pt_song_done", HandlerAudioBlock(T1, t), loc[t])
               /\ obs' = ObsRaise(t, TRUE, TRUE)
          ELSE /\ Goto(t, "ps_demucs", T1, [loc[t] EXCEPT !.lines = @ + 1])
               /\ obs' = obs
    /\ UNCHANGED <<INSTALL_LOCK, job, proc, timer>>
    /\ TaskOnly

\* process_audio lines 693-716: Demucs has ended; the handle is cleared and
\* the check point of line 695 follows; then the exit status and the moved
\* stems decide.  wavs: whether Demucs left .wav files.
PS_DemucsWait(t, wavs) ==
    /\ pc[t] = "ps_demucs"
    /\ proc[t] # "live"
    /\ LET T1 == [TASKS EXCEPT ![t].process = None] IN
       IF CancellationPending(T1, t)
       THEN /\ wavs
            /\ Goto(t, "pt_song_done", HandlerAudioBlock(T1, t), loc[t])
            /\ obs' = ObsRaise(t, TRUE, TRUE)
       ELSE /\ obs' = IF proc[t] = "exited_ok" /\ wavs
                       THEN ObsStage(obs, t, "stems", "written") ELSE obs
            /\ IF proc[t] # "exited_ok" \/ ~wavs
               THEN /\ (proc[t] # "exited_ok" => wavs)
                    /\ Goto(t, "pt_song_done", HandlerAudioBlock(T1, t), loc[t])
               ELSE Goto(t, "ps_midi", T1, loc[t])
    /\ UNCHANGED <<INSTALL_LOCK, job, proc, timer>>
    /\ TaskOnly

\* Lines 265-272 and convert_stems_to_midi lines 729-733: resolve('midi'); on
\* a miss the stems found in the stems directory.
\* res: the outcome of resolve; n: the number of .wav stems found.
PS_Midi(t, res, n) ==
    /\ pc[t] = "ps_midi"
    /\ CASE res = "RAISE" ->
              /\ n = 1
              /\ Goto(t, "pt_song_done", HandlerAudioBlock(TASKS, t), loc[t])
         [] res = "USE_EXISTING" ->
              /\ n = 1
              /\ Goto(t, "ps_abc", ResolveLogs(TASKS, t, "midi", res), loc[t])
         [] res = "CREATE_NEW" ->
              IF n = 0
              THEN \* no stem, so no MIDI file: the exception of line 275
                   Goto(t, "pt_song_done",
                        HandlerAudioBlock(ResolveLogs(TASKS, t, "midi", res), t), loc[t])
              ELSE Goto(t, "ps_convert", ResolveLogs(TASKS, t, "midi", res),
                        [loc[t] EXCEPT !.n_stems = n, !.stem_i = 0, !.midi_made = FALSE,
                                       !.results = << >>, !.failed_printed = 0])
    /\ obs' = ObsStage(obs, t, "midi",
                        CASE res = "RAISE" -> "raise"
                          [] res = "USE_EXISTING" -> "hit"
                          [] OTHER -> "miss")
    /\ UNCHANGED <<INSTALL_LOCK, job, proc, timer>>
    /\ TaskOnly

\* convert_stems_to_midi line 735: the loop goes on while stems are left,
\* whatever the conversions returned.
StemsRemainAfterSuccess(l) ==
    l.stem_i + 1 < l.n_stems /\ l.results[Len(l.results)]

StemsRemain(l) == l.stem_i + 1 < l.n_stems

\* convert_stems_to_midi lines 736-741: the progress update, the conversion
\* of one stem and the line printed when it failed.  success: what
\* convert_audio_to_midi returns; it is True exactly when the subprocess has
\* left the stem's .mid file in the MIDI directory.
PS_ConvertStem(t, success) ==
    /\ pc[t] = "ps_convert"
    /\ Goto(t, "ps_convert_check",
            UpdateDetailedStatus(TASKS, t, 5, loc[t].stem_i + 1, 50, "Converting stem...", None),
            [loc[t] EXCEPT !.midi_made = @ \/ success,
                            !.results = Append(@, success),
                            !.failed_printed = IF success THEN @ ELSE @ + 1])
    /\ UNCHANGED <<INSTALL_LOCK, job, proc, timer, obs>>
    /\ TaskOnly

\* convert_stems_to_midi line 742 and _process_song lines 268-281: the check
\* point after each stem; after the last stem the manifest is written and an
\* empty MIDI list raises the exception of line 275.
PS_ConvertCheck(t) ==
    /\ pc[t] = "ps_convert_check"
    /\ LET l == loc[t] IN
       IF CancellationPending(TASKS, t)
       THEN /\ Goto(t, "pt_song_done", HandlerAudioBlock(TASKS, t), l)
            /\ obs' = ObsRaise(t, TRUE, TRUE)
       ELSE /\ obs' = IF StemsRemain(l) THEN obs
                       ELSE ObsStage(obs, t, "midi", "written")
            /\ IF StemsRemain(l)
               THEN Goto(t, "ps_convert", TASKS, [l EXCEPT !.stem_i = @ + 1])
               ELSE IF l.midi_made
               THEN Goto(t, "ps_abc", TASKS, [l EXCEPT !.stem_i = @ + 1])
               ELSE Goto(t, "pt_song_done", HandlerAudioBlock(TASKS, t), [l EXCEPT !.stem_i = @ + 1])
    /\ UNCHANGED <<INSTALL_LOCK, job, proc, timer>>
    /\ TaskOnly

\* Lines 282-333: the SRT file, resolve('abc_files'), the ABC generation on a
\* miss, the synthesis of the Mix and the analysis of its MIDI file.  No
\* check point lies here.  An exception escaping resolve leaves
\* _process_song and is caught at line 543.
\* res: the outcome of resolve; gen: whether convert_midi_to_abc succeeds;
\* mixed: whether create_mix_midi yields a file; midi: what
\* analyze_midi_features ends with.
PS_Abc(t, res, gen, mixed, midi) ==
    /\ pc[t] = "ps_abc"
    /\ (res = "RAISE" \/ ~mixed) => midi = "ok"
    /\ LET Tmix(T) == IF mixed THEN T
                      ELSE LogPair(T, t, "Could not create Mix.",
                                   "Could not create a combined Mix. Skipping final MIDI analysis.", "warning")
           l1 == [loc[t] EXCEPT !.midi_analysis_results =
                                    IF mixed THEN AnalyzeMidiFeatures(midi) ELSE @,
                                !.mix_abc = (res = "USE_EXISTING") \/ (mixed /\ gen)]
       IN CASE res = "RAISE" ->
                 /\ gen /\ mixed
                 /\ Goto(t, "pt_song", HandlerSongFailed(TASKS, t), loc[t])
            [] res = "USE_EXISTING" ->
                 /\ gen
                 /\ Goto(t, "ps_profile", Tmix(ResolveLogs(TASKS, t, "abc_files", res)), l1)
            [] res = "CREATE_NEW" ->
                 LET T1 == UpdateDetailedStatus(ResolveLogs(TASKS, t, "abc_files", res), t,
                                                6, 2, 50, "Generating ABC notation...", None)
                     T2 == IF gen THEN T1
                           ELSE LogPair(T1, t, "ABC generation failed.",
                                        "ABC score generation failed for title: e", "error")
                 IN Goto(t, "ps_profile", Tmix(T2), l1)
    /\ obs' = LET O == ObsStage(obs, t, "abc_files",
                                CASE res = "RAISE" -> "raise"
                                  [] res = "USE_EXISTING" -> "hit"
                                  [] OTHER -> IF gen THEN "written" ELSE "done")
              IN IF res # "RAISE" /\ mixed THEN ObsStep(O, t, "midi", midi) ELSE O
    /\ UNCHANGED <<INSTALL_LOCK, job, proc, timer>>
    /\ TaskOnly

\* Lines 335-417: the song profile, resolve('chords') when the analysis gave
\* chord data, and the result object, which is never empty.
\* chords: "none" (no chord data, line 375), or the outcome of
\* resolve('chords'), which is called only with chord data of the audio
\* analysis; mix_tempo: whether the Mix score carries a tempo (line 350).
PS_Profile(t, chords, mix_tempo) ==
    /\ pc[t] = "ps_profile"
    /\ (chords # "none") => (loc[t].audio_analysis_results["chord_grid_text"] = "value")
    /\ mix_tempo => loc[t].mix_abc
    /\ LET l1 == [loc[t] EXCEPT !.result_entry = TRUE,
                                !.profile = CreateSongProfile(loc[t].predicted_genres,
                                                              loc[t].audio_analysis_results,
                                                              loc[t].midi_analysis_results, mix_tempo)]
       IN CASE chords = "RAISE" ->
                 /\ ~mix_tempo
                 /\ Goto(t, "pt_song", HandlerSongFailed(TASKS, t), loc[t])
            [] chords = "none" -> Goto(t, "pt_song_done", TASKS, l1)
            [] chords \in {"USE_EXISTING", "CREATE_NEW"} ->
                 Goto(t, "pt_song_done", ResolveLogs(TASKS, t, "chords", chords), l1)
    /\ obs' = IF chords = "none" THEN obs
               ELSE ObsStage(obs, t, "chords",
                             CASE chords = "RAISE" -> "raise"
                               [] chords = "USE_EXISTING" -> "hit"
                               [] OTHER -> "written")
    /\ UNCHANGED <<INSTALL_LOCK, job, proc, timer>>
    /\ TaskOnly

\* Lines 531-547: a song that returned a result has its metadata written and
\* is stored in final_results; a failing write is caught at line 543.
\* written: whether write_metadata succeeds.
PT_SongDone(t, written) ==
    /\ pc[t] = "pt_song_done"
    /\ LET l == loc[t] IN
       IF l.result_entry
       THEN IF written
            THEN Goto(t, "pt_song", TASKS, [l EXCEPT !.final_results = @ + 1])
            ELSE Goto(t, "pt_song", HandlerSongFailed(TASKS, t), l)
       ELSE /\ written
            /\ Goto(t, "pt_song", TASKS, l)
    /\ UNCHANGED <<INSTALL_LOCK, job, proc, timer, obs>>
    /\ TaskOnly

\* A faulty variant of lines 549-552: the results are stored even when no song
\* produced one.
PT_AfterLoopNoCheck(t) ==
    /\ pc[t] = "pt_after_loop"
    /\ Goto(t, "pt_complete", [TASKS EXCEPT ![t].results = loc[t].final_results], loc[t])
    /\ UNCHANGED <<INSTALL_LOCK, job, proc, timer, obs>>
    /\ TaskOnly

\* Lines 549-552: with no result the exception "All files failed to process"
\* goes to the handler of line 557; otherwise the results are stored.
PT_AfterLoop(t) ==
    /\ pc[t] = "pt_after_loop"
    /\ IF loc[t].final_results = 0
       THEN Goto(t, "pt_finally", HandlerFailed(TASKS, t), loc[t])
       ELSE Goto(t, "pt_complete", [TASKS EXCEPT ![t].results = loc[t].final_results], loc[t])
    /\ UNCHANGED <<INSTALL_LOCK, job, proc, timer, obs>>
    /\ TaskOnly

\* Line 553: the success signal.
PT_Complete(t) ==
    /\ pc[t] = "pt_complete"
    /\ Goto(t, "pt_finally",
            UpdateDetailedStatus(TASKS, t, 6, 3, 100, "Finalizing...", "completed"), loc[t])
    /\ UNCHANGED <<INSTALL_LOCK, job, proc, timer, obs>>
    /\ TaskOnly

\* Lines 563-584, the finally block: the temporary directory is removed, the
\* process handle cleared and the model release logged.
\* keep: the keep_models_cached setting.
PT_Finally(t, keep) ==
    /\ pc[t] = "pt_finally"
    /\ LET T1 == IF t \in DOMAIN TASKS THEN [TASKS EXCEPT ![t].process = None] ELSE TASKS
           T2 == IF job[t].mode # "abc" THEN T1
                 ELSE IF keep
                 THEN LogPair(T1, t, "Keeping models in memory.",
                              "Keeping AI models in memory for faster subsequent processing.", "info")
                 ELSE LogPair(T1, t, "Releasing models from memory.",
                              "Releasing AI models from memory...", "info")
       IN Goto(t, "done", T2, loc[t])
    /\ UNCHANGED <<INSTALL_LOCK, job, proc, timer, obs>>
    /\ TaskOnly

\* The steps of the processing worker of task t.
ProcessingStep(t) ==
    \/ PT_Begin(t)
    \/ \E dur \in {"ok", "mismatch", "unreadable"} : PT_ParseCheck(t, dur)
    \/ \E setup \in {"ok", "error"} : PT_Song(t, setup)
    \/ \E mix \in BOOLEAN : PS_Lyrics(t, mix)
    \/ \E readable \in BOOLEAN : PS_LyricsCheck(t, readable)
    \/ \E model \in {"installed", "missing", "error"} : PS_Genre(t, model)
    \/ \E rc \in {"ok", "failed"} : PS_GenreSub(t, rc)
    \/ \E feat \in {"ok", "raise"} : PS_GenreCheck(t, feat)
    \/ \E res \in ResolveOutcomes, env \in {"ok", "error"} : PS_Stems(t, res, env)
    \/ \E env \in {"ok", "error"} : PS_PaCheck(t, env)
    \/ \E parsed \in BOOLEAN : PS_DemucsLine(t, parsed)
    \/ \E wavs \in BOOLEAN : PS_DemucsWait(t, wavs)
    \/ \E res \in ResolveOutcomes, n \in 0..MaxStems : PS_Midi(t, res, n)
    \/ \E success \in BOOLEAN : PS_ConvertStem(t, success)
    \/ PS_ConvertCheck(t)
    \/ \E res \in ResolveOutcomes, gen \in BOOLEAN, mixed \in BOOLEAN : PS_Abc(t, res, gen, mixed, "ok")
    \/ \E chords \in {"none"} \cup ResolveOutcomes : PS_Profile(t, chords, FALSE)
    \/ \E written \in BOOLEAN : PT_SongDone(t, written)
    \/ PT_AfterLoop(t)
    \/ PT_Complete(t)
    \/ \E keep \in BOOLEAN : PT_Finally(t, keep)

(***************************************************************************)
(* installation_manager.py: install_model_wrapper and its progress thread  *)
(* (the broadcasts go to the subscribers of the SSE manager; none is       *)
(* subscribed here)                                                        *)
(***************************************************************************)

\* except InterruptedError (line 245).
InstallCancelled(T, t) ==
    UpdateStatus(T, t, T[t].progress, "Installation cancelled by user.", "cancelled")

\* Lines 259-262: the model directory is removed when it exists; partial
\* tells whether it does.
RemoveModelPath(partial) ==
    /\ partial = (model_path # "absent")
    /\ model_path' = "absent"
    /\ UNCHANGED manifest_path

\* except Exception (line 255); partial: a partially downloaded model
\* directory exists and is removed.
InstallFailed(T, t, partial) ==
    LET T1 == IF partial
              THEN LogPair(T, t, "Installation failed. Cleaning up...",
                           "Installation failed. Attempting to clean up partial files.", "error")
              ELSE T
        T2 == UpdateStatus(T1, t, T1[t].progress, "An error occurred: e", "failed")
    IN LogPair(T2, t, "An unexpected error occurred.",
               "An unexpected error occurred during installation: e", "error")

\* Lines 66-88: the first status update, the download subprocess and its
\* handle.  started: whether the subprocess could be started.
\* partial: see InstallFailed.
IM_Begin(t, started, partial) ==
    /\ pc[t] = "im_begin"
    /\ LET T1 == LogPair(UpdateStatus(TASKS, t, 5, "Starting download...", None), t,
                         "Downloading model...", "Starting download for model", "info")
       IN IF started
          THEN /\ ~partial
               /\ Goto(t, "im_prepare", [T1 EXCEPT ![t].process = "install_proc"], loc[t])
               /\ proc' = [proc EXCEPT ![t] = "live"]
               /\ UNCHANGED hubVars
          ELSE /\ Goto(t, "im_finally", InstallFailed(T1, t, partial), loc[t])
               /\ proc' = proc
               /\ RemoveModelPath(partial)
    /\ UNCHANGED <<INSTALL_LOCK, job, timer, obs>>
    /\ TaskAndHub

\* Lines 91-147: the download rate, the size of the repository and the start
\* of the progress thread.  sized: whether these lines went through without
\* an exception (_get_adaptive_download_rate sums whatever JSON the
\* statistics file holds; the progress thread may fail to start).  The
\* subprocess started at line 86 is not stopped by the handler.
IM_Prepare(t, sized, partial) ==
    /\ pc[t] = "im_prepare"
    /\ IF sized
       THEN /\ ~partial
            /\ Goto(t, "im_read", TASKS, [loc[t] EXCEPT !.lines = 0])
            /\ timer' = [timer EXCEPT ![t] = "running"]
            /\ UNCHANGED hubVars
       ELSE /\ Goto(t, "im_finally", InstallFailed(TASKS, t, partial), loc[t])
            /\ timer' = timer
            /\ RemoveModelPath(partial)
    /\ UNCHANGED <<INSTALL_LOCK, job, proc, obs>>
    /\ TaskAndHub

\* update_progress_periodically (lines 115-144): one round of the progress
\* thread.  Its check point raises inside the thread, which ends it; it
\* writes nothing to the task.
TimerTick(t) ==
    /\ timer[t] \in {"running", "stopping"}
    /\ timer' = [timer EXCEPT ![t] =
                    IF @ = "stopping" THEN "stopped"
                    ELSE IF CancellationPending(TASKS, t) THEN "dead"
                    ELSE "running"]
    /\ UNCHANGED <<TASKS, INSTALL_LOCK, pc, job, loc, proc, obs>>
    /\ TaskOnly

\* Lines 149-151: one line of the subprocess's output and the check point.
IM_ReadLine(t) ==
    /\ pc[t] = "im_read"
    /\ proc[t] = "live"
    /\ loc[t].lines < MaxLines
    /\ IF CancellationPending(TASKS, t)
       THEN /\ Goto(t, "im_finally", InstallCancelled(TASKS, t), loc[t])
            /\ obs' = ObsRaise(t, FALSE, FALSE)
       ELSE /\ Goto(t, "im_read", TASKS, [loc[t] EXCEPT !.lines = @ + 1])
            /\ obs' = obs
    /\ UNCHANGED <<INSTALL_LOCK, job, proc, timer>>
    /\ TaskOnly

\* Line 153: the output has ended; the progress thread is told to stop.
IM_StopTimer(t) ==
    /\ pc[t] = "im_read"
    /\ proc[t] # "live"
    /\ Goto(t, "im_join", TASKS, loc[t])
    /\ timer' = [timer EXCEPT ![t] = IF @ = "running" THEN "stopping" ELSE @]
    /\ UNCHANGED <<INSTALL_LOCK, job, proc, obs>>
    /\ TaskOnly

\* Lines 154-190: the progress thread has ended; the handle is cleared, the
\* check point of line 174 follows, then the exit status decides.
IM_Joined(t, partial) ==
    /\ pc[t] = "im_join"
    /\ timer[t] \in {"stopped", "dead"}
    /\ LET T1 == [TASKS EXCEPT ![t].process = None] IN
       IF CancellationPending(T1, t)
       THEN /\ ~partial
            /\ Goto(t, "im_finally", InstallCancelled(T1, t), loc[t])
            /\ obs' = ObsRaise(t, FALSE, FALSE)
            /\ UNCHANGED hubVars
       ELSE /\ obs' = obs
            /\ IF proc[t] # "exited_ok"
               THEN /\ Goto(t, "im_finally", InstallFailed(T1, t, partial), loc[t])
                    /\ RemoveModelPath(partial)
               ELSE /\ ~partial
                    /\ UNCHANGED hubVars
                    /\ Goto(t, "im_verify",
                            LogPair(UpdateStatus(T1, t, 0, "Verifying...", None), t,
                                    "Verifying installation...",
                                    "Download complete. Verifying integrity of model files...", "info"),
                            [loc[t] EXCEPT !.step = 0])
    /\ UNCHANGED <<INSTALL_LOCK, job, proc, timer>>
    /\ TaskAndHub

\* Lines 192-207: one round of the verifying loop, with its check point.
IM_Verify(t) ==
    /\ pc[t] = "im_verify"
    /\ loc[t].step < VerifySteps
    /\ IF CancellationPending(TASKS, t)
       THEN /\ Goto(t, "im_finally", InstallCancelled(TASKS, t), loc[t])
            /\ obs' = ObsRaise(t, FALSE, FALSE)
       ELSE /\ Goto(t, "im_verify", TASKS, [loc[t] EXCEPT !.step = @ + 1])
            /\ obs' = obs
    /\ UNCHANGED <<INSTALL_LOCK, job, proc, timer>>
    /\ TaskOnly

\* Lines 213-244: the manifest of the installed model and the success signal.
\* made: whether the model directory exists and its manifest could be written.
IM_Manifest(t, made, partial) ==
    /\ pc[t] = "im_verify"
    /\ loc[t].step >= VerifySteps
    /\ LET T1 == UpdateStatus(LogPair(TASKS, t, "Finalizing installation...",
                                      "Verification complete. Creating installation manifest...", "info"),
                              t, 100, "Creating manifest...", None)
       IN IF made
          THEN /\ ~partial
               /\ model_path # "absent"
               /\ manifest_path' = TRUE
               /\ UNCHANGED model_path
               /\ Goto(t, "im_finally",
                       UpdateStatus(LogPair(T1, t, "Model installed successfully.",
                                            "Model installed and verified successfully.", "success"),
                                    t, 100, "Installation complete.", "completed"),
                       loc[t])
          ELSE /\ Goto(t, "im_finally", InstallFailed(T1, t, partial), loc[t])
               /\ RemoveModelPath(partial)
    /\ UNCHANGED <<INSTALL_LOCK, job, proc, timer, obs>>
    /\ TaskAndHub

\* A faulty variant of the finally block: the worker ends and the install
\* lock stays held.
IM_FinallyKeepsLock(t) ==
    /\ pc[t] = "im_finally"
    /\ pc' = [pc EXCEPT ![t] = "done"]
    /\ UNCHANGED <<TASKS, INSTALL_LOCK, job, loc, proc, timer, obs>>
    /\ TaskOnly

\* Lines 280-300, the finally block: the install lock is released.
IM_Finally(t) ==
    /\ pc[t] = "im_finally"
    /\ INSTALL_LOCK' = FALSE
    /\ pc' = [pc EXCEPT ![t] = "done"]
    /\ UNCHANGED <<TASKS, job, loc, proc, timer, obs>>
    /\ TaskOnly

\* The steps of the installation worker of task t and of its progress thread.
InstallStep(t) ==
    \/ (\E started \in BOOLEAN, partial \in BOOLEAN : IM_Begin(t, started, partial))
    \/ (\E sized \in BOOLEAN, partial \in BOOLEAN : IM_Prepare(t, sized, partial))
    \/ TimerTick(t)
    \/ IM_ReadLine(t)
    \/ IM_StopTimer(t)
    \/ \E partial \in BOOLEAN : IM_Joined(t, partial)
    \/ IM_Verify(t)
    \/ \E made \in BOOLEAN, partial \in BOOLEAN : IM_Manifest(t, made, partial)
    \/ IM_Finally(t)
    \/ DownloadStep(t)

(***************************************************************************)
(* The specification of the task registry and the workers                  *)
(***************************************************************************)

\* The registry is empty and the lock free; Ids: the ids of the tasks to come.
InitTaskFor(Ids) ==
    /\ TASKS = << >>
    /\ INSTALL_LOCK = FALSE
    /\ pc = [t \in Ids |-> "unborn"]
    /\ job = [t \in Ids |-> NoJob]
    /\ loc = [t \in Ids |-> InitLoc]
    /\ proc = [t \in Ids |-> "none"]
    /\ timer = [t \in Ids |-> "none"]
    /\ response = NoResponse
    /\ obs = [t \in Ids |-> InitObs]
    /\ model_path = "absent"
    /\ manifest_path = FALSE

InitTask == InitTaskFor(TaskIds)

InitManifestIdle ==
    /\ mf = None
    /\ mfResult = None

InitCacheIdle ==
    /\ fs = << >>
    /\ resolvers = << >>
    /\ cpc = << >>
    /\ lastResolve = << >>

\* No fingerprint is being computed.
NoFingerprint == [file |-> None, settings |-> None]
NoFpJob == [state |-> "idle", job |-> None, fingerprint |-> NoFingerprint]
InitFingerprintIdle == fpFirst = NoFpJob /\ fpSecond = NoFpJob

\* No models root is being swept.
\* The clock stands at 0 and the reaper sleeps where no time passes.
InitReaperIdle ==
    /\ clock = 0
    /\ reaper = [pc |-> "sleeping", now |-> 0, tasks_to_delete |-> {}]
    /\ wk = << >>

\* No connection and no broadcasting thread.
InitSseIdle ==
    /\ clients = << >>
    /\ queues = << >>
    /\ streams = << >>
    /\ bc = << >>

\* No result directory and no task choosing one.
InitDirsIdle ==
    /\ output_root = {}
    /\ rd = << >>

InitLateIdle ==
    /\ dl = << >>
    /\ xet = << >>
    /\ mx = << >>

InitMoreIdle == InitReaperIdle /\ InitSseIdle /\ InitDirsIdle /\ InitLateIdle

InitSweepIdle ==
    /\ models_root = << >>
    /\ manifest_dir = << >>
    /\ lastSweep = << >>
    /\ status_cache = None
    /\ lastDelete = << >>

\* What the specifications of the other components leave idle.
InitExtraIdle == InitFingerprintIdle /\ InitSweepIdle /\ InitMoreIdle

Init == InitTask /\ InitManifestIdle /\ InitCacheIdle /\ InitExtraIdle

Next ==
    \/ \E t \in TaskIds, j \in JobInputs : StartProcessing(t, j)
    \/ \E t \in TaskIds : ManageModelInstall(t)
    \/ \E reason \in {"busy", "invalid"} : ManageModelRefused(reason)
    \/ \E t \in TaskIds : ProcessingStep(t)
    \/ \E t \in TaskIds : InstallStep(t)
    \/ \E t \in TaskIds : CancelTask(t)
    \/ \E t \in TaskIds, how \in {"exited_ok", "exited_fail"} : ProcExit(t, how)
    \/ \E t \in TaskIds : TaskStatus(t)

Spec == Init /\ [][Next]_vars

(***************************************************************************)
(* The specification of the installations: two install requests, their     *)
(* workers and the lock                                                    *)
(***************************************************************************)

\* The ids of the installation tasks, in the order they are given out.
InstallIds == {"t1", "t2"}
InstallOrder == <<"t1", "t2">>

InitInstall ==
    /\ InitTaskFor(InstallIds)
    /\ InitManifestIdle
    /\ InitCacheIdle
    /\ InitExtraIdle

NextInstall ==
    \/ \E k \in 1..Len(InstallOrder) :
          /\ \A i \in 1..(k - 1) : pc[InstallOrder[i]] # "unborn"
          /\ ManageModelInstall(InstallOrder[k])
    \/ \E reason \in {"busy", "invalid"} : ManageModelRefused(reason)
    \/ \E t \in InstallIds : InstallStep(t)
    \/ \E t \in InstallIds : CancelTask(t)
    \/ \E t \in InstallIds, how \in {"exited_ok", "exited_fail"} : ProcExit(t, how)

SpecInstall == InitInstall /\ [][NextInstall]_vars

\* A step of the worker thread of task t itself: one that takes its position
\* or its locals further.
WorkerMoves(t) == InstallStep(t) /\ <<pc[t], loc[t]>>' # <<pc[t], loc[t]>>

\* With the scheduling the installations rest on: the worker thread and the
\* progress thread, once started, go on running (threading.Thread, app.py
\* line 281 and installation_manager.py line 146), and the installer
\* subprocess ends, by itself or terminated by cancel_task.
SpecInstallLive ==
    /\ InitInstall /\ [][NextInstall]_vars
    /\ \A t \in InstallIds :
          /\ WF_vars(WorkerMoves(t))
          /\ WF_vars(TimerTick(t))
          /\ WF_vars(\E how \in {"exited_ok", "exited_fail"} : ProcExit(t, how))

(***************************************************************************)
(* The specification of the lyrics-only jobs: one task, its worker on the  *)
(* path of lyrics_only mode, cancel and status requests                    *)
(***************************************************************************)

LyricsIds == {"t1"}

InitLyrics ==
    /\ InitTaskFor(LyricsIds)
    /\ InitManifestIdle
    /\ InitCacheIdle
    /\ InitExtraIdle

\* The steps of process_task_wrapper and _process_song that lyrics_only mode
\* goes through.
LyricsStep(t) ==
    \/ PT_Begin(t)
    \/ \E dur \in {"ok", "unreadable"} : PT_ParseCheck(t, dur)
    \/ \E setup \in {"ok", "error"} : PT_Song(t, setup)
    \/ PS_Lyrics(t, TRUE)
    \/ \E readable \in BOOLEAN : PS_LyricsCheck(t, readable)
    \/ PS_Profile(t, "none", FALSE)
    \/ \E written \in BOOLEAN : PT_SongDone(t, written)
    \/ PT_AfterLoop(t)
    \/ PT_Complete(t)
    \/ \E keep \in BOOLEAN : PT_Finally(t, keep)

NextLyrics ==
    \/ \E t \in LyricsIds, j \in LyricsJobs : StartProcessing(t, j)
    \/ \E t \in LyricsIds : LyricsStep(t)
    \/ \E t \in LyricsIds : CancelTask(t)
    \/ \E t \in LyricsIds : TaskStatus(t)

SpecLyrics == InitLyrics /\ [][NextLyrics]_vars

(***************************************************************************)
(* The specification of the MIDI transcription: one task with one audio    *)
(* file whose stems are found in the cache and converted one by one        *)
(***************************************************************************)

MidiIds == {"t1"}

\* Most stems of one song.
MaxMidiStems == 3

\* A job with one full mix and no lyrics.
MidiJob ==
    [mode |-> "abc", audio |-> 1, full_mix |-> TRUE, midi |-> FALSE, lyrics |-> FALSE, lyric_lines |-> 0,
     durations |-> <<1800>>]

InitMidi ==
    /\ InitTaskFor(MidiIds)
    /\ InitManifestIdle
    /\ InitCacheIdle
    /\ InitExtraIdle

\* The steps of process_task_wrapper and _process_song of a job whose genre
\* model is missing and whose stems are re-used.
MidiStep(t) ==
    \/ PT_Begin(t)
    \/ PT_ParseCheck(t, "ok")
    \/ PT_Song(t, "ok")
    \/ PS_Lyrics(t, TRUE)
    \/ PS_LyricsCheck(t, TRUE)
    \/ PS_Genre(t, "missing")
    \/ PS_GenreCheck(t, "ok")
    \/ PS_Stems(t, "USE_EXISTING", "ok")
    \/ \E n \in 0..MaxMidiStems : PS_Midi(t, "CREATE_NEW", n)
    \/ \E success \in BOOLEAN : PS_ConvertStem(t, success)
    \/ PS_ConvertCheck(t)
    \/ \E gen \in BOOLEAN : PS_Abc(t, "CREATE_NEW", gen, TRUE, "ok")
    \/ PS_Profile(t, "CREATE_NEW", FALSE)
    \/ \E written \in BOOLEAN : PT_SongDone(t, written)
    \/ PT_AfterLoop(t)
    \/ PT_Complete(t)
    \/ PT_Finally(t, FALSE)

NextMidi ==
    \/ \E t \in MidiIds : StartProcessing(t, MidiJob)
    \/ \E t \in MidiIds : MidiStep(t)
    \/ \E t \in MidiIds : CancelTask(t)
    \/ \E t \in MidiIds : TaskStatus(t)

SpecMidi == InitMidi /\ [][NextMidi]_vars

(***************************************************************************)
(* The specification of the music analysis: one task with one audio file,  *)
(* every outcome of the three analysis steps, the other stages succeeding  *)
(***************************************************************************)

AnalysisIds == {"t1"}

InitAnalysis ==
    /\ InitTaskFor(AnalysisIds)
    /\ InitManifestIdle
    /\ InitCacheIdle
    /\ InitExtraIdle

\* The steps of process_task_wrapper and _process_song of a job whose stems
\* and MIDI files are re-used.
AnalysisStep(t) ==
    \/ PT_Begin(t)
    \/ PT_ParseCheck(t, "ok")
    \/ PT_Song(t, "ok")
    \/ PS_Lyrics(t, TRUE)
    \/ PS_LyricsCheck(t, TRUE)
    \/ \E model \in {"installed", "missing", "error"} : PS_Genre(t, model)
    \/ \E rc \in {"ok", "failed", "no_result"} : PS_GenreSub(t, rc)
    \/ \E feat \in AudioOutcomes : PS_GenreCheck(t, feat)
    \/ PS_Stems(t, "USE_EXISTING", "ok")
    \/ PS_Midi(t, "USE_EXISTING", 1)
    \/ \E mixed \in BOOLEAN, midi \in MidiOutcomes : PS_Abc(t, "CREATE_NEW", TRUE, mixed, midi)
    \/ \E chords \in {"none", "CREATE_NEW"}, mix_tempo \in BOOLEAN : PS_Profile(t, chords, mix_tempo)
    \/ PT_SongDone(t, TRUE)
    \/ PT_AfterLoop(t)
    \/ PT_Complete(t)
    \/ PT_Finally(t, FALSE)

NextAnalysis ==
    \/ \E t \in AnalysisIds : StartProcessing(t, MidiJob)
    \/ \E t \in AnalysisIds : AnalysisStep(t)
    \/ \E t \in AnalysisIds : CancelTask(t)
    \/ \E t \in AnalysisIds : TaskStatus(t)

SpecAnalysis == InitAnalysis /\ [][NextAnalysis]_vars

(***************************************************************************)
(* The specification of the reaper: task_manager.cleanup_old_tasks, the    *)
(* clock, and the workers seen as callers of update_detailed_status and    *)
(* log_to_ui, whose steps the reaper may come between                      *)
(***************************************************************************)

ReaperIds == {"t1", "t2"}

\* cleanup_old_tasks line 70: time.sleep(3600).
ReaperSleep == 3600

\* cleanup_old_tasks line 80: a task is reaped when older than 7200 seconds.
ReaperWindow == 7200

\* The clock moves in steps of one sleep of the reaper, MaxTicks times at
\* most.
TickSeconds == ReaperSleep
MaxTicks == 3

\* Most log_to_ui calls of one worker.
MaxLogs == 2

\* The messages of a worker's log_to_ui calls, in call order.
LogMessages == <<"first", "second", "third">>

\* The worker of a task that does not exist yet.
NoWorker == [pc |-> "unborn", ret |-> "unborn", logs |-> 0]

\* What the steps of this specification leave alone.
ReaperFrame ==
    /\ response' = NoResponse
    /\ UNCHANGED <<INSTALL_LOCK, pc, job, loc, proc, timer, obs, hubVars>>
    /\ UNCHANGED <<mfVars, cacheVars, fpVars, swVars, sseVars, dirVars, lateVars>>

\* start_processing lines 389-400 and 412-414: the task record, stamped with
\* the time of its creation, and the worker thread.
CreateTaskRecord(t) ==
    /\ wk[t].pc = "unborn"
    /\ TASKS' = (t :> NewTask(FALSE)) @@ TASKS
    /\ wk' = [wk EXCEPT ![t].pc = "working"]
    /\ UNCHANGED <<clock, reaper>>
    /\ ReaperFrame

\* A progress update of the worker (update_detailed_status, lines 14-30):
\* the first one moves 'starting' to 'running'.
WorkerProgress(t) ==
    /\ wk[t].pc = "working"
    /\ t \in DOMAIN TASKS
    /\ TASKS[t].status = "starting"
    /\ TASKS' = UpdateDetailedStatus(TASKS, t, 1, 1, 33, "Parsing filenames...", None)
    /\ UNCHANGED <<clock, reaper, wk>>
    /\ ReaperFrame

\* process_task_wrapper lines 553-560: the worker writes the terminal status
\* (the handlers and the 'finally' block are still to run).
WorkerTerminal(t, status) ==
    /\ wk[t].pc = "working"
    /\ t \in DOMAIN TASKS
    /\ TASKS[t].status = "running"
    /\ TASKS' = UpdateDetailedStatus(TASKS, t, -1, -1, -1, "ended", status)
    /\ wk' = [wk EXCEPT ![t].pc = "handled"]
    /\ UNCHANGED <<clock, reaper>>
    /\ ReaperFrame

\* log_to_ui line 10: 'if task_id in TASKS'; for an unknown id the call
\* returns at once.
LogToUiCheck(t) ==
    /\ wk[t].pc \in {"working", "handled"}
    /\ wk[t].logs < MaxLogs
    /\ wk' = [wk EXCEPT ![t] = [pc |-> IF t \in DOMAIN TASKS THEN "log_test" ELSE @.pc,
                               ret |-> @.pc, logs |-> @.logs + 1]]
    /\ UNCHANGED <<TASKS, clock, reaper>>
    /\ ReaperFrame

\* log_to_ui lines 18-19: "if 'ui_logs' not in TASKS[task_id]" subscripts
\* TASKS again; KeyError when the record is gone.
LogToUiTest(t) ==
    /\ wk[t].pc = "log_test"
    /\ wk' = [wk EXCEPT ![t].pc = IF t \in DOMAIN TASKS THEN "log_append" ELSE "raised"]
    /\ UNCHANGED <<TASKS, clock, reaper>>
    /\ ReaperFrame

\* log_to_ui line 20: TASKS[task_id]['ui_logs'].append(log_entry), a third
\* subscript of TASKS; KeyError when the record is gone.
LogToUiAppend(t) ==
    /\ wk[t].pc = "log_append"
    /\ IF t \in DOMAIN TASKS
       THEN /\ TASKS' = [TASKS EXCEPT ![t].ui_logs =
                            Append(@, [message |-> LogMessages[wk[t].logs], type |-> "info",
                                       target |-> "both"])]
            /\ wk' = [wk EXCEPT ![t].pc = wk[t].ret]
       ELSE /\ TASKS' = TASKS
            /\ wk' = [wk EXCEPT ![t].pc = "raised"]
    /\ UNCHANGED <<clock, reaper>>
    /\ ReaperFrame

\* The worker thread ends after its 'finally' block.
WorkerReturn(t) ==
    /\ wk[t].pc = "handled"
    /\ wk' = [wk EXCEPT ![t].pc = "returned"]
    /\ UNCHANGED <<TASKS, clock, reaper>>
    /\ ReaperFrame

\* Time passes; the reaper wakes as soon as its sleep is over and its pass
\* takes no time.
Tick ==
    /\ clock < MaxTicks * TickSeconds
    /\ reaper.pc = "sleeping"
    /\ clock - reaper.now < ReaperSleep
    /\ clock' = clock + TickSeconds
    /\ UNCHANGED <<TASKS, reaper, wk>>
    /\ ReaperFrame

\* A variant of line 80 that looks at the age only.
ReapableByAge(task, now) ==
    now - task.timestamp > ReaperWindow

\* cleanup_old_tasks line 80: the test that selects a task.
Reapable(task, now) ==
    task.status \in {"completed", "failed", "cancelled"} /\ now - task.timestamp > ReaperWindow

\* cleanup_old_tasks lines 72-81: the sleep is over; 'now' is read and the
\* tasks to delete are collected from a snapshot of TASKS.  The next sleep
\* is counted from 'now'.
ReaperWake ==
    /\ reaper.pc = "sleeping"
    /\ clock - reaper.now >= ReaperSleep
    /\ LET found == {t \in DOMAIN TASKS : Reapable(TASKS[t], clock)} IN
       reaper' = [pc |-> IF found = {} THEN "sleeping" ELSE "deleting",
                  now |-> clock, tasks_to_delete |-> found]
    /\ UNCHANGED <<TASKS, clock, wk>>
    /\ ReaperFrame

\* cleanup_old_tasks lines 83-86: 'del TASKS[task_id]' for one collected
\* task; after the last one the thread sleeps again.
ReaperDelete(t) ==
    /\ reaper.pc = "deleting"
    /\ t \in reaper.tasks_to_delete
    /\ TASKS' = [u \in DOMAIN TASKS \ {t} |-> TASKS[u]]
    /\ reaper' = [reaper EXCEPT !.tasks_to_delete = @ \ {t},
                                !.pc = IF reaper.tasks_to_delete = {t} THEN "sleeping" ELSE @]
    /\ UNCHANGED <<clock, wk>>
    /\ ReaperFrame

InitReaper ==
    /\ InitTaskFor(ReaperIds)
    /\ InitManifestIdle
    /\ InitCacheIdle
    /\ InitFingerprintIdle
    /\ InitSweepIdle
    /\ InitSseIdle
    /\ InitDirsIdle
    /\ InitLateIdle
    /\ clock = 0
    /\ reaper = [pc |-> "sleeping", now |-> 0, tasks_to_delete |-> {}]
    /\ wk = [t \in ReaperIds |-> NoWorker]

NextReaper ==
    \/ \E t \in ReaperIds : CreateTaskRecord(t)
    \/ \E t \in ReaperIds : WorkerProgress(t)
    \/ \E t \in ReaperIds, status \in {"completed", "failed", "cancelled"} : WorkerTerminal(t, status)
    \/ \E t \in ReaperIds : LogToUiCheck(t)
    \/ \E t \in ReaperIds : LogToUiTest(t)
    \/ \E t \in ReaperIds : LogToUiAppend(t)
    \/ \E t \in ReaperIds : WorkerReturn(t)
    \/ Tick
    \/ ReaperWake
    \/ \E t \in ReaperIds : ReaperDelete(t)

SpecReaper == InitReaper /\ [][NextReaper]_vars

(***************************************************************************)
(* The specification of the event streams: sse_manager.SSEManager with     *)
(* connections that subscribe, consume and disconnect, and threads that    *)
(* broadcast                                                               *)
(***************************************************************************)

\* The connections (each names its own queue) and the broadcasting threads.
Subscribers == {"s1", "s2"}
Broadcasters == {"b1", "b2"}

\* Most events the first thread broadcasts (the second one broadcasts a
\* single event), most items one stream emits, most calls of unsubscribe
\* after the one of the stream itself.
MaxEvents == 2
MaxEmits == 2
MaxUnsubscribes == 1

EventsOf(b) == IF b = "b1" THEN MaxEvents ELSE 1

NoStream == [pc |-> "unstarted", connected |-> TRUE, out |-> << >>, emitted |-> 0, unsubscribes |-> 0]
IdleBroadcast == [pc |-> "idle", sent |-> 0, snapshot |-> << >>, i |-> 1, whole |-> {}]

\* A variant of unsubscribe that leaves the list as it is.
UnsubscribeNothing(cl, q) == cl

\* unsubscribe (lines 27-35): list.remove takes out the first occurrence;
\* the ValueError for a queue that is not in the list is caught.
Unsubscribe(cl, q) ==
    IF \E n \in DOMAIN cl : cl[n] = q
    THEN LET n == CHOOSE n \in DOMAIN cl : cl[n] = q /\ \A m \in 1..(n - 1) : cl[m] # q
         IN SubSeq(cl, 1, n - 1) \o SubSeq(cl, n + 1, Len(cl))
    ELSE cl

\* What the steps of this specification leave alone.
SseFrame == UNCHANGED <<taskVars, mfVars, cacheVars, fpVars, swVars, rpVars, dirVars, lateVars>>

\* stream lines 69-75: the generator is started: subscribe() creates the
\* queue and appends it to the list, and ':connected' is yielded.
StreamStart(s) ==
    /\ streams[s].pc = "unstarted"
    /\ streams[s].connected
    /\ queues' = (s :> << >>) @@ queues
    /\ clients' = Append(clients, s)
    /\ streams' = [streams EXCEPT ![s].pc = "waiting", ![s].emitted = 1]
    /\ UNCHANGED bc
    /\ SseFrame

\* stream lines 79-80: get() returns the oldest message within the window
\* and the event is yielded.
StreamEvent(s) ==
    /\ streams[s].pc = "waiting"
    /\ streams[s].emitted < MaxEmits
    /\ queues[s] # << >>
    /\ queues' = [queues EXCEPT ![s] = Tail(@)]
    /\ streams' = [streams EXCEPT ![s].out = Append(@, Head(queues[s])),
                                  ![s].emitted = @ + 1]
    /\ UNCHANGED <<clients, bc>>
    /\ SseFrame

\* stream lines 81-84: the window of 15 seconds ends with the queue empty;
\* ':heartbeat' is yielded.
StreamHeartbeat(s) ==
    /\ streams[s].pc = "waiting"
    /\ streams[s].emitted < MaxEmits
    /\ queues[s] = << >>
    /\ streams' = [streams EXCEPT ![s].emitted = @ + 1]
    /\ UNCHANGED <<clients, queues, bc>>
    /\ SseFrame

\* The client goes away.
ClientDisconnect(s) ==
    /\ streams[s].connected
    /\ streams' = [streams EXCEPT ![s].connected = FALSE]
    /\ UNCHANGED <<clients, queues, bc>>
    /\ SseFrame

\* stream lines 85-92: the server closes the generator of a connection that
\* is gone; GeneratorExit is raised at the yield and the 'finally' block
\* unsubscribes the queue.  A generator that was never started runs nothing.
StreamClose(s) ==
    /\ ~streams[s].connected
    /\ streams[s].pc \in {"unstarted", "waiting"}
    /\ clients' = IF streams[s].pc = "waiting" THEN Unsubscribe(clients, s) ELSE clients
    /\ streams' = [streams EXCEPT ![s].pc = "closed"]
    /\ bc' = [b \in DOMAIN bc |-> [bc[b] EXCEPT !.whole = @ \ {s}]]
    /\ UNCHANGED queues
    /\ SseFrame

\* unsubscribe called once more for the queue of a closed stream.
UnsubscribeAgain(s) ==
    /\ streams[s].pc = "closed"
    /\ s \in DOMAIN queues
    /\ streams[s].unsubscribes < MaxUnsubscribes
    /\ clients' = Unsubscribe(clients, s)
    /\ streams' = [streams EXCEPT ![s].unsubscribes = @ + 1]
    /\ UNCHANGED <<queues, bc>>
    /\ SseFrame

\* A variant of line 54 that walks the list itself.
IterationListLive(b) == clients

\* broadcast line 54: the loop walks list(self.clients), the copy taken when
\* it began.
IterationList(b) == bc[b].snapshot

\* broadcast lines 50-54: the message is serialised and the copy of the list
\* is taken.  whole: the queues subscribed from here to the end of the call
\* (history).
BroadcastBegin(b) ==
    /\ bc[b].pc = "idle"
    /\ bc[b].sent < EventsOf(b)
    /\ bc' = [bc EXCEPT ![b] = [pc |-> "iterating", sent |-> @.sent + 1,
                                snapshot |-> clients, i |-> 1,
                                whole |-> {clients[n] : n \in DOMAIN clients}]]
    /\ UNCHANGED <<clients, queues, streams>>
    /\ SseFrame

\* broadcast lines 54-56: one round of the loop, client_queue.put of the
\* message on a queue without limit; after the last round the call returns.
BroadcastPut(b) ==
    /\ bc[b].pc = "iterating"
    /\ LET L == IterationList(b) IN
       IF bc[b].i > Len(L)
       THEN /\ bc' = [bc EXCEPT ![b].pc = "idle", ![b].snapshot = << >>, ![b].i = 1,
                                ![b].whole = {}]
            /\ queues' = queues
       ELSE /\ bc' = [bc EXCEPT ![b].i = @ + 1]
            /\ queues' = [queues EXCEPT ![L[bc[b].i]] = Append(@, <<b, bc[b].sent>>)]
    /\ UNCHANGED <<clients, streams>>
    /\ SseFrame

InitSse ==
    /\ InitTaskFor(TaskIds)
    /\ InitManifestIdle
    /\ InitCacheIdle
    /\ InitFingerprintIdle
    /\ InitSweepIdle
    /\ InitReaperIdle
    /\ InitDirsIdle
    /\ InitLateIdle
    /\ clients = << >>
    /\ queues = << >>
    /\ streams = [s \in Subscribers |-> NoStream]
    /\ bc = [b \in Broadcasters |-> IdleBroadcast]

NextSse ==
    \/ \E s \in Subscribers : StreamStart(s)
    \/ \E s \in Subscribers : StreamEvent(s)
    \/ \E s \in Subscribers : StreamHeartbeat(s)
    \/ \E s \in Subscribers : ClientDisconnect(s)
    \/ \E s \in Subscribers : StreamClose(s)
    \/ \E b \in Broadcasters : BroadcastBegin(b)
    \/ \E b \in Broadcasters : BroadcastPut(b)

SpecSse == InitSse /\ [][NextSse]_vars

\* The streams under one broadcasting thread, with further calls of
\* unsubscribe.
NextSseLive ==
    \/ \E s \in Subscribers : StreamStart(s)
    \/ \E s \in Subscribers : StreamEvent(s)
    \/ \E s \in Subscribers : StreamHeartbeat(s)
    \/ \E s \in Subscribers : ClientDisconnect(s)
    \/ \E s \in Subscribers : StreamClose(s)
    \/ \E s \in Subscribers : UnsubscribeAgain(s)
    \/ BroadcastBegin("b1")
    \/ BroadcastPut("b1")

\* With the scheduling the streams rest on: a wait on the queue ends within
\* its window of 15 seconds, with a message or with queue.Empty, and the
\* server closes the generator of a connection that is gone.
SpecSseLive ==
    /\ InitSse /\ [][NextSseLive]_vars
    /\ \A s \in Subscribers :
          /\ WF_vars(StreamEvent(s))
          /\ WF_vars(StreamHeartbeat(s))
          /\ WF_vars(StreamClose(s))

(***************************************************************************)
(* The specification of the result directories: the workers of two tasks   *)
(* choosing and creating their directory (process_task_wrapper lines       *)
(* 495-506) while the clock runs                                           *)
(***************************************************************************)

DirTasks == {"t1", "t2"}

\* The fingerprints of the jobs.
DirFingerprints == {"fpA", "fpB"}

\* Most seconds the clock moves in this specification.
MaxSeconds == 1

NoChoice == [pc |-> "unborn", fingerprint |-> None, timestamp_str |-> 0, i |-> 1,
             result_dir_name |-> << >>]

\* What the steps of this specification leave alone.
DirFrame == UNCHANGED <<taskVars, mfVars, cacheVars, fpVars, swVars, reaper, wk, sseVars, lateVars>>

\* Lines 481-499: the fingerprint of the job is computed, the time is read and
\* formatted to the second, and i starts at 1.  The clients' time offsets are
\* taken as equal.
DirStamp(t, fp) ==
    /\ rd[t].pc = "unborn"
    /\ rd' = [rd EXCEPT ![t] = [pc |-> "probe", fingerprint |-> fp, timestamp_str |-> clock,
                                i |-> 1, result_dir_name |-> << >>]]
    /\ UNCHANGED <<output_root, clock>>
    /\ DirFrame

\* Lines 500-505: one round of the loop: the name is formed and tested with
\* exists(); a name that exists makes i go up, one that does not ends the
\* loop.
DirProbe(t) ==
    /\ rd[t].pc = "probe"
    /\ LET name == <<rd[t].timestamp_str, rd[t].i, rd[t].fingerprint>> IN
       rd' = IF name \in output_root
             THEN [rd EXCEPT ![t].i = @ + 1]
             ELSE [rd EXCEPT ![t].pc = "mkdir", ![t].result_dir_name = name]
    /\ UNCHANGED <<output_root, clock>>
    /\ DirFrame

\* Line 506: mkdir(parents=True, exist_ok=True) creates the directory, or
\* finds it there and says nothing; from here the task writes into it.
DirMkdir(t) ==
    /\ rd[t].pc = "mkdir"
    /\ output_root' = output_root \cup {rd[t].result_dir_name}
    /\ rd' = [rd EXCEPT ![t].pc = "using"]
    /\ UNCHANGED clock
    /\ DirFrame

\* A second passes.
ClockSecond ==
    /\ clock < MaxSeconds
    /\ clock' = clock + 1
    /\ UNCHANGED <<output_root, rd>>
    /\ DirFrame

InitDirs ==
    /\ InitTaskFor(TaskIds)
    /\ InitManifestIdle
    /\ InitCacheIdle
    /\ InitFingerprintIdle
    /\ InitSweepIdle
    /\ InitReaperIdle
    /\ InitSseIdle
    /\ InitLateIdle
    /\ output_root = {}
    /\ rd = [t \in DirTasks |-> NoChoice]

NextDirs ==
    \/ \E t \in DirTasks, fp \in DirFingerprints : DirStamp(t, fp)
    \/ \E t \in DirTasks : DirProbe(t)
    \/ \E t \in DirTasks : DirMkdir(t)
    \/ ClockSecond

SpecDirs == InitDirs /\ [][NextDirs]_vars

(***************************************************************************)
(* Properties of the task registry and the workers                         *)
(***************************************************************************)

Processing(t) == t \in DOMAIN TASKS /\ ~TASKS[t].model_info
Installing(t) == t \in DOMAIN TASKS /\ TASKS[t].model_info
Ended(t)      == t \in DOMAIN TASKS /\ TASKS[t].status \in TerminalStatuses

\* C1: a processing task in which a check point has raised the cancellation
\* signal has no terminal status other than 'cancelled' (in particular it is
\* never 'completed'), wherever in the pipeline the check point lies.
C1_CancelledWhenRaised ==
    \A t \in TaskIds :
        (Processing(t) /\ obs[t].raised /\ Ended(t)) => TASKS[t].status = "cancelled"

\* The status changes the state machine of a task allows.
StatusChangeAllowed(old, new) ==
    \/ old = "starting" /\ new = "running"
    \/ old = "running" /\ new \in TerminalStatuses

\* C2: a task is created with status 'starting', and every change of a
\* task's status, processing or installation, is one of starting->running,
\* running->completed, running->failed, running->cancelled.
C2_StateMachine ==
    [][\A t \in TaskIds :
          /\ (t \notin DOMAIN TASKS /\ t \in DOMAIN TASKS') => TASKS'[t].status = "starting"
          /\ (t \in DOMAIN TASKS /\ t \in DOMAIN TASKS' /\ TASKS'[t].status # TASKS[t].status)
                => StatusChangeAllowed(TASKS[t].status, TASKS'[t].status)]_vars

\* C3: terminal statuses are absorbing: no step of a handler, of a worker or
\* of the progress thread changes a status that is completed, failed or
\* cancelled.
C3_TerminalAbsorbing ==
    [][\A t \in TaskIds :
          Ended(t) => (t \in DOMAIN TASKS' /\ TASKS'[t].status = TASKS[t].status)]_vars

\* C3, its case: a task has ended, a cancel request has arrived after that
\* and the worker has run its cleanup.
C3_Witness ==
    \E t \in TaskIds : Ended(t) /\ obs[t].lateCancel /\ pc[t] = "done"

\* C4: a cancellation raised at a check point inside _process_song ends the
\* task as 'cancelled', not 'failed', and the handler that catches it appends
\* no error entry to ui_logs.
C4_CancellationIsNoError ==
    \A t \in TaskIds :
        (Processing(t) /\ obs[t].raisedInSong)
            => /\ ~obs[t].loggedAsError
               /\ (Ended(t) => TASKS[t].status = "cancelled")

\* C5: a processing task is 'completed' only when every song has been
\* attempted, at least one has produced a result and the results are already
\* stored; when the loop has ended without any result the task ends 'failed';
\* task_status answers with results only for a completed task.
C5_CompletedOnlyWithResults ==
    \A t \in TaskIds :
        /\ (Processing(t) /\ TASKS[t].status = "completed")
              => /\ loc[t].song_num = loc[t].total_songs
                 /\ loc[t].total_songs > 0
                 /\ loc[t].final_results > 0
                 /\ TASKS[t].results = loc[t].final_results
        /\ (Processing(t) /\ obs[t].loopFinished /\ loc[t].final_results = 0 /\ Ended(t))
              => (TASKS[t].status = "failed" /\ TASKS[t].results = None)
        /\ response.has_results
              => (Ended(t) /\ TASKS[t].status = "completed" /\ response.results = TASKS[t].results)

\* C5, its case: a completed task has been queried and the answer holds the
\* results stored before the status changed.
C5_Witness ==
    \E t \in TaskIds :
        /\ Processing(t) /\ TASKS[t].status = "completed"
        /\ response.has_results /\ response.results > 0


(***************************************************************************)
(* cache_resolver.py: manifests and their validation                       *)
(*                                                                         *)
(* An asset directory is a record [manifest, disk].  disk maps the names   *)
(* of the regular files in the directory, the manifest apart, to their     *)
(* contents.  manifest is the state of .solasola_manifest.json:            *)
(*   [t |-> "missing"]      no such file                                   *)
(*   [t |-> "unreadable"]   open() raises OSError                          *)
(*   [t |-> "undecodable"]  the bytes are not UTF-8                        *)
(*   [t |-> "unparseable"]  the text is not JSON                           *)
(*   [t |-> "json", v |-> J] the text parses to the JSON value J           *)
(* JSON values, as far as the validator tells them apart:                  *)
(*   [t |-> "null"], [t |-> "num"],                                        *)
(*   [t |-> "str", has_files |-> b]   a string; b: it contains "files"     *)
(*   [t |-> "list", has_files |-> b]  a list; b: "files" is an element     *)
(*   [t |-> "obj", files |-> F]       an object; F its "files" member:     *)
(*       [t |-> "absent"], [t |-> "falsy"] (null, 0, false, "", [], {}),   *)
(*       [t |-> "num"] (a non-zero number or true), [t |-> "str"],         *)
(*       [t |-> "obj"] (both non-empty), [t |-> "list", items |-> seq].    *)
(* An item of the list is [t |-> "null"], [t |-> "num"], [t |-> "str"] or  *)
(* [t |-> "obj", name |-> N, size |-> S] with                              *)
(*   N: [t |-> "absent"], [t |-> "num"] or [t |-> "str", v |-> file name]  *)
(*   S: [t |-> "absent"], [t |-> "str"] or [t |-> "int", v |-> number].    *)
(***************************************************************************)

AssetTypes == {"stems", "midi", "abc_files", "chords"}

\* File names and str.endswith on them.
FileNames == {"a.wav", "a.mid", "a.abc", "a.srt", "a.txt", "a.json"}
\* The MIDI files of a result folder: the transcriptions of the stems and
\* the Mix written by _process_song (processing_logic.py line 316).
StemMidiNames == {"bass.mid", "drums.mid"}
MidiNames == StemMidiNames \cup {"solasola_mixed.mid"}
Suffix ==
    [n \in FileNames \cup MidiNames |->
        CASE n = "a.wav" -> ".wav" [] n = "a.mid" -> ".mid" [] n = "a.abc" -> ".abc"
          [] n = "a.srt" -> ".srt" [] n = "a.txt" -> ".txt" [] n = "a.json" -> ".json"
          [] n \in MidiNames -> ".mid"]
EndsWith(n, ext) == Suffix[n] = ext

\* File contents and their sizes in bytes: "p" and "q" differ and have the
\* same size.
Contents == {"p", "q", "rr"}
StSize == [c \in Contents |-> IF c = "rr" THEN 2 ELSE 1]

\* expected_extensions.get(asset_type) of _validate_processing_cache.
ExpectedExtensions(asset_type) ==
    CASE asset_type = "stems" -> ".wav"
      [] asset_type = "midi" -> ".mid"
      [] asset_type = "abc_files" -> ".abc"
      [] OTHER -> None

\* f['name'] for an item f of the list: the name, or the exception raised.
ItemName(f) ==
    IF f.t # "obj" THEN [exc |-> "TypeError"]
    ELSE IF f.name.t = "absent" THEN [exc |-> "KeyError"]
    ELSE [exc |-> None, name |-> f.name]

\* any(f['name'].endswith(expected_ext) for f in files) from item i on:
\* "True", "False" or the exception raised; any() stops at the first match.
RECURSIVE AnyEndsWith(_, _, _)
AnyEndsWith(items, i, ext) ==
    IF i > Len(items) THEN "False"
    ELSE LET n == ItemName(items[i]) IN
         IF n.exc # None THEN n.exc
         ELSE IF n.name.t # "str" THEN "AttributeError"
         ELSE IF EndsWith(n.name.v, ext) THEN "True"
         ELSE AnyEndsWith(items, i + 1, ext)

\* The loop "for file_info in manifest_data['files']" from item i on.
RECURSIVE AllFilesMatch(_, _, _)
AllFilesMatch(items, i, disk) ==
    IF i > Len(items) THEN "True"
    ELSE LET n == ItemName(items[i]) IN
         IF n.exc # None THEN n.exc
         ELSE IF n.name.t # "str" THEN "TypeError"
         ELSE IF n.name.v \notin DOMAIN disk THEN "False"
         ELSE LET s == items[i].size IN
              IF s.t = "absent" THEN "KeyError"
              ELSE IF s.t # "int" \/ s.v # StSize[disk[n.name.v]] THEN "False"
              ELSE AllFilesMatch(items, i + 1, disk)

\* The body of the try block once json.load has returned the value J.
ValidateLoaded(asset_type, J, disk) ==
    CASE J.t \in {"null", "num"} -> "TypeError"
      [] J.t \in {"str", "list"} -> IF J.has_files THEN "TypeError" ELSE "False"
      [] J.t = "obj" ->
            LET F == J.files
                ext == ExpectedExtensions(asset_type)
            IN IF F.t \in {"absent", "falsy"} THEN "False"
               ELSE IF F.t = "num" THEN "TypeError"
               ELSE IF F.t \in {"str", "obj"} THEN "TypeError"
               ELSE LET any == IF ext # None THEN AnyEndsWith(F.items, 1, ext) ELSE "True"
                    IN IF any = "True" THEN AllFilesMatch(F.items, 1, disk) ELSE any

\* _validate_processing_cache(directory) for the directory d named
\* asset_type: "True" or "False" when it returns, else the name of the
\* exception that leaves it.  The handler of line 43 turns JSONDecodeError,
\* IOError and KeyError into False.
ValidateProcessingCache(asset_type, d) ==
    CASE d.manifest.t = "missing" -> "False"
      [] d.manifest.t = "unreadable" -> "False"
      [] d.manifest.t = "undecodable" -> "UnicodeDecodeError"
      [] d.manifest.t = "unparseable" -> "False"
      [] d.manifest.t = "json" ->
            LET r == ValidateLoaded(asset_type, d.manifest.v, d.disk)
            IN IF r = "KeyError" THEN "False" ELSE r

\* The elements of a set of file names in some order (Path.iterdir promises
\* none).
RECURSIVE SetToSeq(_)
SetToSeq(S) ==
    IF S = {} THEN << >>
    ELSE LET x == CHOOSE y \in S : TRUE IN <<x>> \o SetToSeq(S \ {x})

\* The table of write_manifest_for_step: the extensions one of which a file
\* of the directory must have for a manifest to be written.
ManifestExtensions(asset_type) ==
    CASE asset_type = "stems" -> {".wav"}
      [] asset_type = "midi" -> {".mid"}
      [] asset_type = "abc_files" -> {".abc"}
      [] asset_type = "chords" -> {".srt", ".txt"}
      [] OTHER -> {}

\* json.dump({"files": files_data}) for the files of disk.
ManifestOf(disk) ==
    LET names == SetToSeq(DOMAIN disk) IN
    [t |-> "json",
     v |-> [t |-> "obj",
            files |-> IF names = << >> THEN [t |-> "falsy"]
                      ELSE [t |-> "list",
                            items |-> [i \in 1..Len(names) |->
                                         [t |-> "obj",
                                          name |-> [t |-> "str", v |-> names[i]],
                                          size |-> [t |-> "int", v |-> StSize[disk[names[i]]]]]]]]]

\* write_manifest_for_step(asset_type) on the directory d: nothing is
\* written when no file has an expected extension.
WriteManifestForStep(asset_type, d) ==
    IF ManifestExtensions(asset_type) # {}
       /\ ~\E n \in DOMAIN d.disk : Suffix[n] \in ManifestExtensions(asset_type)
    THEN d
    ELSE [d EXCEPT !.manifest = ManifestOf(d.disk)]


(***************************************************************************)
(* The specification of the validator: one asset directory, validated and  *)
(* given a fresh manifest in any order                                     *)
(***************************************************************************)

\* Most items of a manifest's files list.
MaxItems == 2

\* The file names drawn for a directory of the asset type: those with an
\* extension write_manifest_for_step expects, and one without.
NamesFor(asset_type) ==
    {n \in FileNames : Suffix[n] \in ManifestExtensions(asset_type)} \cup {"a.json"}

ItemsFor(asset_type) ==
    {[t |-> "null"], [t |-> "num"], [t |-> "str"]}
    \cup {[t |-> "obj", name |-> N, size |-> S] :
            N \in {[t |-> "absent"], [t |-> "num"]}
                  \cup {[t |-> "str", v |-> n] : n \in NamesFor(asset_type)},
            S \in {[t |-> "absent"], [t |-> "str"]}
                  \cup {[t |-> "int", v |-> k] : k \in {1, 2}}}

ItemLists(asset_type) ==
    UNION {[1..k -> ItemsFor(asset_type)] : k \in 1..MaxItems}

JsonValues(asset_type) ==
    {[t |-> "null"], [t |-> "num"]}
    \cup {[t |-> k, has_files |-> b] : k \in {"str", "list"}, b \in BOOLEAN}
    \cup {[t |-> "obj", files |-> [t |-> k]] : k \in {"absent", "falsy", "num", "str", "obj"}}
    \cup {[t |-> "obj", files |-> [t |-> "list", items |-> l]] : l \in ItemLists(asset_type)}

Manifests(asset_type) ==
    {[t |-> k] : k \in {"missing", "unreadable", "undecodable", "unparseable"}}
    \cup {[t |-> "json", v |-> J] : J \in JsonValues(asset_type)}

Disks(names, contents) == UNION {[S -> contents] : S \in SUBSET names}

InitManifest ==
    /\ \E a \in AssetTypes :
         \E m \in Manifests(a), disk \in Disks(NamesFor(a), {"p", "rr"}) :
            mf = [asset |-> a, dir |-> [manifest |-> m, disk |-> disk]]
    /\ mfResult = None
    /\ InitTask
    /\ InitCacheIdle
    /\ InitExtraIdle

\* The directory is validated.
Validate ==
    /\ mfResult = None
    /\ mfResult' = ValidateProcessingCache(mf.asset, mf.dir)
    /\ mf' = mf
    /\ UNCHANGED <<taskVars, cacheVars, extraVars>>

\* The processing step that owns the directory writes its manifest.
WriteManifest ==
    /\ mf' = [mf EXCEPT !.dir = WriteManifestForStep(mf.asset, mf.dir)]
    /\ mfResult' = None
    /\ UNCHANGED <<taskVars, cacheVars, extraVars>>

NextManifest == Validate \/ WriteManifest

SpecManifest == InitManifest /\ [][NextManifest]_vars

(***************************************************************************)
(* Properties of the validator                                             *)
(***************************************************************************)

\* The files list of the manifest when it is a non-empty list, else << >>.
ListedItems ==
    IF mf.dir.manifest.t = "json" /\ mf.dir.manifest.v.t = "obj"
       /\ mf.dir.manifest.v.files.t = "list"
    THEN mf.dir.manifest.v.files.items
    ELSE << >>

\* The manifest is well-formed: every item is an object with a file name
\* and an integer size.
WellFormed ==
    /\ ListedItems # << >>
    /\ \A i \in 1..Len(ListedItems) :
          /\ ListedItems[i].t = "obj"
          /\ ListedItems[i].name.t = "str"
          /\ ListedItems[i].size.t = "int"

SomeListedMissing ==
    \E i \in 1..Len(ListedItems) : ListedItems[i].name.v \notin DOMAIN mf.dir.disk

SomeListedSizeDiffers ==
    \E i \in 1..Len(ListedItems) :
        /\ ListedItems[i].name.v \in DOMAIN mf.dir.disk
        /\ ListedItems[i].size.v # StSize[mf.dir.disk[ListedItems[i].name.v]]

NoListedExpectedExtension ==
    \A i \in 1..Len(ListedItems) :
        Suffix[ListedItems[i].name.v] \notin ManifestExtensions(mf.asset)

\* C7: for each of the four asset types, the validation of a directory with
\* a well-formed manifest is false when a listed file is missing, when a
\* listed file's size differs, or when no listed file has the extension
\* expected for the asset type (.srt or .txt for chords).
C7_InvalidWhenBroken ==
    (mfResult # None /\ WellFormed
       /\ (SomeListedMissing \/ SomeListedSizeDiffers \/ NoListedExpectedExtension))
    => mfResult = "False"

\* C8: whatever the manifest file holds, the validation returns (true or
\* false) and raises nothing.
C8_NeverRaises ==
    mfResult # None => mfResult \in {"True", "False"}


(***************************************************************************)
(* cache_resolver.py: CacheResolver over the output root                   *)
(*                                                                         *)
(* fs maps the names of the result folders of the output root to their     *)
(* asset subdirectories.  A folder name "{timestamp}_{i}_{fingerprint}" is *)
(* the triple <<timestamp, i, fingerprint>>; an asset subdirectory is a    *)
(* record [exists, manifest, disk] with manifest and disk as above.        *)
(***************************************************************************)

Fingerprints == {"fpA", "fpB"}

\* Timestamps (seconds of the client's local time): the tasks start within
\* the same second, the folder of an earlier run is older or, the client's
\* offset having changed, newer.
Timestamps == {1}
OldTimestamps == {0, 2}
\* Most calls of resolve by one task.
MaxResolves == 2
\* Most changes the user makes to the output root.
MaxEdits == 1

\* The asset types resolved in this specification.
CacheAssets == {"stems"}

CacheTasks == {"r1", "r2"}

EmptyDisk == [n \in {} |-> "p"]
NoDir == [exists |-> FALSE, manifest |-> [t |-> "missing"], disk |-> EmptyDisk]
EmptyFolder == [a \in CacheAssets |-> NoDir]

\* The tasks in the order of their creation.
TaskOrder == <<"r1", "r2">>

\* The suffix i never exceeds the number of folders by more than one.
FolderNames == (Timestamps \cup OldTimestamps) \X (1..(Len(TaskOrder) + 1)) \X Fingerprints

\* Python's order on the names of two folders with the same fingerprint: the
\* timestamps have a fixed width and i is below 10.
NameLess(x, y) == x[1] < y[1] \/ (x[1] = y[1] /\ x[2] < y[2])

\* candidates.sort(key=lambda p: p.name, reverse=True)
RECURSIVE SortReverse(_)
SortReverse(S) ==
    IF S = {} THEN << >>
    ELSE LET m == CHOOSE x \in S : \A y \in S \ {x} : NameLess(y, x)
         IN <<m>> \o SortReverse(S \ {m})

\* A faulty variant of _find_candidate_folders: oldest first.
FindCandidateFoldersOldestFirst(F, fingerprint) ==
    LET s == SortReverse({f \in DOMAIN F : f[3] = fingerprint})
    IN [k \in 1..Len(s) |-> s[Len(s) + 1 - k]]

\* _find_candidate_folders: the folders whose name contains the fingerprint,
\* latest name first.
FindCandidateFolders(F, fingerprint) ==
    SortReverse({f \in DOMAIN F : f[3] = fingerprint})

\* The subdirectory of asset type a in folder f, NoDir when f is gone.
SubDir(F, f, a) == IF f \in DOMAIN F THEN F[f][a] ELSE NoDir

\* source_path.is_dir() and _validate_processing_cache(source_path)
CandidateCheck(F, f, a) ==
    IF ~SubDir(F, f, a).exists THEN "False"
    ELSE ValidateProcessingCache(a, SubDir(F, f, a))

\* A faulty variant of _safe_copy_tree: the manifest, a dot file, is left out.
SafeCopyTreeFilesOnly(src, dst) ==
    [exists |-> TRUE, manifest |-> dst.manifest, disk |-> src.disk @@ dst.disk]

\* _safe_copy_tree(source, dest) that runs to its end: dest is created, every
\* file of source, the manifest included, is copied over what dest holds.
SafeCopyTree(src, dst) ==
    [exists |-> TRUE, manifest |-> src.manifest, disk |-> src.disk @@ dst.disk]

\* _safe_copy_tree that fails: dest is created; part: one file has been
\* copied before the failure.
FailedCopyTree(src, dst, part) ==
    IF part /\ DOMAIN src.disk # {}
    THEN LET n == CHOOSE x \in DOMAIN src.disk : TRUE
         IN [dst EXCEPT !.exists = TRUE, !.disk = (n :> src.disk[n]) @@ dst.disk]
    ELSE [dst EXCEPT !.exists = TRUE]

\* A faulty variant of the loop of resolve: a failed copy ends the search.
RECURSIVE ResolveFromStopOnFailure(_, _, _, _, _, _, _, _)
ResolveFromStopOnFailure(F, cands, i, a, own, io, part, failed) ==
    IF i > Len(cands)
    THEN [action |-> "CREATE_NEW", source |-> None, failed |-> failed,
          fs |-> [F EXCEPT ![own][a].exists = TRUE]]
    ELSE LET c == cands[i]
             v == CandidateCheck(F, c, a)
         IN IF v = "False" THEN ResolveFromStopOnFailure(F, cands, i + 1, a, own, io, part, failed)
            ELSE IF v # "True"
            THEN [action |-> v, source |-> c, failed |-> failed, fs |-> F]
            ELSE IF c = own \/ c \in io
            THEN [action |-> "CREATE_NEW", source |-> None, failed |-> failed \cup {c},
                  fs |-> [F EXCEPT ![own][a].exists = TRUE]]
            ELSE [action |-> "USE_EXISTING", source |-> c, failed |-> failed,
                  fs |-> [F EXCEPT ![own][a] = SafeCopyTree(F[c][a], F[own][a])]]

\* The loop of resolve from candidate i on, and what follows it.  io: the
\* candidates the copy from which meets an I/O error; part: whether such a
\* copy leaves a file behind; failed: the candidates whose copy has failed.
\* The result holds the action (or the exception that leaves resolve), the
\* source, the failed copies and the file system afterwards.  Copying the
\* task's own subdirectory onto itself always fails (shutil.SameFileError).
RECURSIVE ResolveFrom(_, _, _, _, _, _, _, _)
ResolveFrom(F, cands, i, a, own, io, part, failed) ==
    IF i > Len(cands)
    THEN [action |-> "CREATE_NEW", source |-> None, failed |-> failed,
          fs |-> [F EXCEPT ![own][a].exists = TRUE]]
    ELSE LET c == cands[i]
             v == CandidateCheck(F, c, a)
         IN IF v = "False" THEN ResolveFrom(F, cands, i + 1, a, own, io, part, failed)
            ELSE IF v # "True"
            THEN [action |-> v, source |-> c, failed |-> failed, fs |-> F]
            ELSE IF c = own
            THEN ResolveFrom(F, cands, i + 1, a, own, io, part, failed \cup {c})
            ELSE IF c \in io
            THEN ResolveFrom([F EXCEPT ![own][a] = FailedCopyTree(F[c][a], @, part)],
                             cands, i + 1, a, own, io, part, failed \cup {c})
            ELSE [action |-> "USE_EXISTING", source |-> c, failed |-> failed,
                  fs |-> [F EXCEPT ![own][a] = SafeCopyTree(F[c][a], F[own][a])]]

\* self.provenance[asset_type] after a resolve that returned.
Provenance(res) ==
    IF res.action = "USE_EXISTING"
    THEN [status |-> "COPIED_FROM_CACHE", source |-> res.source]
    ELSE [status |-> "CREATED_NEW", source |-> None]


(***************************************************************************)
(* The specification of the cache: tasks that create result folders,       *)
(* resolve, produce and write manifests, and the user who deletes results  *)
(* or edits manifests                                                      *)
(***************************************************************************)

NoProvenance == [status |-> None, source |-> None]

\* The outcome of a task's latest resolve of an asset type (history); clean:
\* no copy failed but that of the task's own subdirectory onto itself.
NoOutcome == [action |-> None, source |-> None, clean |-> FALSE]

\* The call of resolve that has just ended (history): the task, the asset
\* type, the action returned or the exception raised, the source, the
\* candidates whose copy failed, whether the destination was absent before
\* (fresh), the outcome of the task's previous call for the asset type
\* (prev) and whether the candidates' subdirectories have been left alone by
\* everyone else since then (stable).
NoResolve == [task |-> None, asset |-> None, action |-> None, source |-> None,
              failed |-> {}, fresh |-> FALSE, prev |-> NoOutcome, stable |-> FALSE]


\* The subdirectory a of folder f has been changed by someone other than
\* the task actor: the tasks that hold f as a candidate take note (history).
Disturb(R, actor, f, a) ==
    [r \in DOMAIN R |->
        IF r # actor /\ f \in Range(R[r].candidate_folders)
        THEN [R[r] EXCEPT !.stable[a] = FALSE]
        ELSE R[r]]

\* process_task_wrapper lines 480-516: the fingerprint, the fresh result
\* folder "{timestamp}_{i}_{fingerprint}" and the CacheResolver, whose
\* candidates are found once, here, the new folder among them.
CreateTask(r, ts, fingerprint) ==
    /\ cpc[r] = "unborn"
    /\ \A k \in 1..Len(TaskOrder) :
          (TaskOrder[k] = r) => \A j \in 1..(k - 1) : cpc[TaskOrder[j]] # "unborn"
    /\ \E i \in 1..(Len(TaskOrder) + 1) :
         /\ <<ts, i, fingerprint>> \notin DOMAIN fs
         /\ \A k \in 1..(i - 1) : <<ts, k, fingerprint>> \in DOMAIN fs
         /\ LET dir == <<ts, i, fingerprint>>
                F == (dir :> EmptyFolder) @@ fs
            IN /\ fs' = F
               /\ resolvers' = (r :> [fingerprint |-> fingerprint,
                                      result_dir |-> dir,
                                      candidate_folders |-> FindCandidateFolders(F, fingerprint),
                                      provenance |-> [a \in CacheAssets |-> NoProvenance],
                                      last |-> [a \in CacheAssets |-> NoOutcome],
                                      stable |-> [a \in CacheAssets |-> FALSE],
                                      stage |-> [a \in CacheAssets |-> "idle"],
                                      calls |-> 0]) @@ resolvers
    /\ cpc' = [cpc EXCEPT ![r] = "live"]
    /\ lastResolve' = NoResolve
    /\ UNCHANGED <<taskVars, mfVars, extraVars>>

\* The candidates of task r other than its own folder.
CandidatesOf(r) ==
    IF r \in DOMAIN resolvers
    THEN Range(resolvers[r].candidate_folders) \ {resolvers[r].result_dir}
    ELSE {}

\* resolve(asset_type) by task r, as one step.  An exception of the
\* validator leaves resolve and ends the song, so the task.
Resolve(r, a, io, part) ==
    /\ cpc[r] = "live"
    /\ resolvers[r].calls < MaxResolves
    /\ \E res \in {ResolveFrom(fs, resolvers[r].candidate_folders, 1, a,
                                resolvers[r].result_dir, io, part, {})} :
       LET R == resolvers[r]
           own == R.result_dir
           returned == res.action \in {"USE_EXISTING", "CREATE_NEW"}
           R1 == IF returned
                 THEN [R EXCEPT !.provenance[a] = Provenance(res),
                                !.last[a] = [action |-> res.action, source |-> res.source,
                                             clean |-> res.failed \ {own} = {}],
                                !.stable[a] = TRUE,
                                !.stage[a] = IF res.action = "CREATE_NEW" /\ @ = "idle"
                                             THEN "new" ELSE @,
                                !.calls = @ + 1]
                 ELSE [R EXCEPT !.calls = @ + 1]
           RS == [resolvers EXCEPT ![r] = R1]
       IN /\ io \subseteq Range(R.candidate_folders) \ {own}
          /\ (io = {} => ~part)
          /\ fs' = res.fs
          /\ resolvers' = IF res.fs[own][a] # fs[own][a] THEN Disturb(RS, r, own, a) ELSE RS
          /\ cpc' = [cpc EXCEPT ![r] = IF returned THEN "live" ELSE "ended"]
          /\ lastResolve' = [task |-> r, asset |-> a, action |-> res.action,
                             source |-> res.source, failed |-> res.failed,
                             fresh |-> ~fs[own][a].exists,
                             prev |-> R.last[a], stable |-> R.stable[a]]
    /\ UNCHANGED <<taskVars, mfVars, extraVars>>

\* resolve with every way a copy can fail.
ResolveStep(r, a) ==
    \E part \in BOOLEAN, io \in SUBSET CandidatesOf(r) : Resolve(r, a, io, part)

\* The stage that follows a CREATE_NEW writes its output files into the
\* task's own subdirectory.
Produce(r, a, disk) ==
    /\ cpc[r] = "live"
    /\ resolvers[r].stage[a] = "new"
    /\ LET own == resolvers[r].result_dir IN
       /\ fs' = [fs EXCEPT ![own][a].disk = disk @@ @]
       /\ resolvers' = Disturb([resolvers EXCEPT ![r].stage[a] = "files"], r, own, a)
    /\ lastResolve' = NoResolve
    /\ UNCHANGED <<taskVars, mfVars, extraVars, cpc>>

\* write_manifest_for_step(asset_type) by task r after the stage.
WriteManifestStep(r, a) ==
    /\ cpc[r] = "live"
    /\ resolvers[r].stage[a] = "files"
    /\ LET own == resolvers[r].result_dir IN
       /\ fs' = [fs EXCEPT ![own][a] = WriteManifestForStep(a, @)]
       /\ resolvers' = Disturb([resolvers EXCEPT ![r].stage[a] = "done"], r, own, a)
    /\ lastResolve' = NoResolve
    /\ UNCHANGED <<taskVars, mfVars, extraVars, cpc>>

\* The folders no live task writes to.
Settled == {f \in DOMAIN fs :
              \A r \in DOMAIN resolvers : cpc[r] = "live" => resolvers[r].result_dir # f}

\* results_manager.delete_result: the user deletes the result folder of a
\* finished task.
DeleteResult(f) ==
    /\ f \in Settled
    /\ cpc["user"] < MaxEdits
    /\ fs' = [g \in DOMAIN fs \ {f} |-> fs[g]]
    /\ resolvers' = [r \in DOMAIN resolvers |->
                        IF f \in Range(resolvers[r].candidate_folders)
                        THEN [resolvers[r] EXCEPT !.stable = [a \in CacheAssets |-> FALSE]]
                        ELSE resolvers[r]]
    /\ cpc' = [cpc EXCEPT !["user"] = @ + 1]
    /\ lastResolve' = NoResolve
    /\ UNCHANGED <<taskVars, mfVars, extraVars>>

\* The manifest of a finished task's subdirectory is damaged or edited from
\* outside the program.
DamageManifest(f, a, m) ==
    /\ f \in Settled
    /\ cpc["user"] < MaxEdits
    /\ fs[f][a].exists
    /\ fs[f][a].manifest # m
    /\ fs' = [fs EXCEPT ![f][a].manifest = m]
    /\ resolvers' = Disturb(resolvers, None, f, a)
    /\ cpc' = [cpc EXCEPT !["user"] = @ + 1]
    /\ lastResolve' = NoResolve
    /\ UNCHANGED <<taskVars, mfVars, extraVars>>

\* What the stages write: a file of the expected extension, with one
\* content or another of the same size, or a file of another extension.
ProducedDisks == { ("a.wav" :> "p"), ("a.wav" :> "q"), ("a.json" :> "p") }

DamagedManifests == {[t |-> "json", v |-> [t |-> "null"]]}

\* The output root at the start: empty, or holding the folder of an earlier
\* run with its stems and their manifest.
OldFolders == {<<0, 1, "fpA">>, <<2, 1, "fpA">>, <<2, 1, "fpB">>}
OldDir == WriteManifestForStep("stems", [exists |-> TRUE, manifest |-> [t |-> "missing"],
                                         disk |-> ("a.wav" :> "rr")])

InitCache ==
    /\ fs \in { [f \in {} |-> EmptyFolder] }
              \cup { (f :> [a \in CacheAssets |-> IF a = "stems" THEN OldDir ELSE NoDir]) :
                        f \in OldFolders }
    /\ resolvers = [r \in {} |-> 0]
    /\ cpc = [r \in CacheTasks \cup {"user"} |-> IF r = "user" THEN 0 ELSE "unborn"]
    /\ lastResolve = NoResolve
    /\ InitTask
    /\ InitManifestIdle
    /\ InitExtraIdle

NextCache ==
    \/ \E r \in CacheTasks, ts \in Timestamps : CreateTask(r, ts, "fpA")
    \/ \E r \in CacheTasks, a \in CacheAssets : ResolveStep(r, a)
    \/ \E r \in CacheTasks, a \in CacheAssets, disk \in ProducedDisks : Produce(r, a, disk)
    \/ \E r \in CacheTasks, a \in CacheAssets : WriteManifestStep(r, a)
    \/ \E f \in FolderNames : DeleteResult(f)
    \/ \E f \in FolderNames, a \in CacheAssets, m \in DamagedManifests : DamageManifest(f, a, m)

SpecCache == InitCache /\ [][NextCache]_vars


(***************************************************************************)
(* Properties of the cache                                                 *)
(***************************************************************************)

\* A call of resolve ends in this step; it has returned.
ResolveEnds == lastResolve'.task # None
Returned(l) == l.action \in {"USE_EXISTING", "CREATE_NEW"}

\* In the state before the call: candidate k of task r is another folder
\* whose subdirectory a passes the validation.
ValidAt(r, a, k) ==
    LET c == resolvers[r].candidate_folders[k]
    IN c # resolvers[r].result_dir /\ CandidateCheck(fs, c, a) = "True"

\* The subdirectory a of the task's result directory after the call holds
\* the files of folder src before the call, manifest included.
CopiedFrom(r, a, src) ==
    LET own == resolvers[r].result_dir
    IN /\ fs'[own][a].exists
       /\ fs'[own][a].manifest = fs[src][a].manifest
       /\ \A n \in DOMAIN fs[src][a].disk :
             n \in DOMAIN fs'[own][a].disk /\ fs'[own][a].disk[n] = fs[src][a].disk[n]

\* C6 as it stands, for calls that return and whose destination is new:
\* USE_EXISTING exactly for the first candidate that passes the validation,
\* CREATE_NEW when there is none.
C6_FirstValid ==
    [][(ResolveEnds /\ Returned(lastResolve') /\ lastResolve'.fresh) =>
         LET r == lastResolve'.task
             a == lastResolve'.asset
             cs == resolvers[r].candidate_folders
         IN IF \E k \in 1..Len(cs) : ValidAt(r, a, k)
            THEN /\ lastResolve'.action = "USE_EXISTING"
                 /\ \E k \in 1..Len(cs) :
                       /\ cs[k] = lastResolve'.source
                       /\ ValidAt(r, a, k)
                       /\ \A j \in 1..(k - 1) : ~ValidAt(r, a, j)
            ELSE lastResolve'.action = "CREATE_NEW"]_vars

\* C6, amended: the candidates are in descending order of their names; when
\* resolve returns USE_EXISTING the source is the first candidate that passes
\* the validation and whose copy succeeds, the candidates before it having
\* failed the validation or the copy, its files are in the result directory
\* and the provenance is COPIED_FROM_CACHE with it as source; the copy is
\* attempted only from candidates that pass the validation (the task's own
\* folder is judged when the loop reaches it, after the partial copies the
\* call has made into it, and is never the source); when resolve returns
\* CREATE_NEW every candidate has failed the validation or the copy and the
\* provenance is CREATED_NEW.
C6_FirstUsable ==
    [][ResolveEnds =>
         LET r == lastResolve'.task
             a == lastResolve'.asset
             own == resolvers[r].result_dir
             cs == resolvers[r].candidate_folders
             failed == lastResolve'.failed
             Usable(k) == ValidAt(r, a, k) /\ cs[k] \notin failed
         IN /\ \A j, k \in 1..Len(cs) : j < k => NameLess(cs[k], cs[j])
            /\ \A c \in failed : c # own => CandidateCheck(fs, c, a) = "True"
            /\ lastResolve'.action = "USE_EXISTING" =>
                  /\ \E k \in 1..Len(cs) :
                        /\ cs[k] = lastResolve'.source
                        /\ Usable(k)
                        /\ \A j \in 1..(k - 1) : ~Usable(j)
                  /\ CopiedFrom(r, a, lastResolve'.source)
                  /\ resolvers'[r].provenance[a] =
                        [status |-> "COPIED_FROM_CACHE", source |-> lastResolve'.source]
            /\ lastResolve'.action = "CREATE_NEW" =>
                  /\ \A k \in 1..Len(cs) : ~Usable(k)
                  /\ fs'[own][a].exists
                  /\ resolvers'[r].provenance[a] = [status |-> "CREATED_NEW", source |-> None]]_vars

\* C6, its case: a call has skipped a valid candidate whose copy failed and
\* has used a later one.
C6_Witness ==
    /\ lastResolve.action = "USE_EXISTING"
    /\ lastResolve.failed # {}
    /\ resolvers[lastResolve.task].result_dir \notin lastResolve.failed

RepeatedCall ==
    /\ lastResolve.task # None
    /\ lastResolve.prev.action # None
    /\ lastResolve.prev.clean
    /\ Returned(lastResolve)
    /\ lastResolve.failed \subseteq {resolvers[lastResolve.task].result_dir}

SameOutcome ==
    /\ lastResolve.action = lastResolve.prev.action
    /\ lastResolve.action = "USE_EXISTING" => lastResolve.source = lastResolve.prev.source

C11_CreateNewIsEmpty ==
    [][(ResolveEnds /\ lastResolve'.action = "CREATE_NEW" /\ lastResolve'.fresh) =>
         LET own == resolvers[lastResolve'.task].result_dir
             d == fs'[own][lastResolve'.asset]
         IN d.exists /\ d.disk = EmptyDisk /\ d.manifest = [t |-> "missing"]]_vars

\* C12: a call of resolve in which the copy from a validated candidate has
\* failed for a reason of I/O still returns; it returns USE_EXISTING from a
\* later candidate that passes the validation, or CREATE_NEW when no later
\* candidate does.
C12_CopyFailureGoesOn ==
    [][(ResolveEnds /\ lastResolve'.failed \ {resolvers[lastResolve'.task].result_dir} # {}) =>
         LET r == lastResolve'.task
             a == lastResolve'.asset
             cs == resolvers[r].candidate_folders
             failed == lastResolve'.failed
         IN /\ Returned(lastResolve')
            /\ lastResolve'.action = "USE_EXISTING" =>
                  \E k \in 1..Len(cs) :
                     /\ cs[k] = lastResolve'.source
                     /\ ValidAt(r, a, k)
                     /\ \A j \in 1..(k - 1) : ValidAt(r, a, j) => cs[j] \in failed
            /\ lastResolve'.action = "CREATE_NEW" =>
                  \A k \in 1..Len(cs) : ValidAt(r, a, k) => cs[k] \in failed]_vars


(***************************************************************************)
(* The fingerprint of a job (process_task_wrapper lines 480-493)           *)
(***************************************************************************)

\* Most audio files of a job.
MaxAudio == 2

\* The stem names parse_title_and_stem_from_filenames gives the audio
\* files, the contents of files, the modes and the Demucs models.
Stems == {"vocals", "bass", "drums"}
FileBytes == {"x", "y"}
Modes == {"abc", "lyrics_only"}
DemucsModels == {"htdemucs_ft", "htdemucs_6s"}

\* The audio files of a job in the order of classified_files['audio'],
\* which is the order of os.listdir: one file per stem name.
AudioLists ==
    UNION { { s \in [1..n -> [stem : Stems, bytes : FileBytes]] :
                \A i, k \in 1..n : i # k => s[i].stem # s[k].stem } : n \in 0..MaxAudio }

\* The jobs: the audio files, the content of the MIDI file (None: no MIDI
\* file), the mode and the model; start_processing refuses the mode 'abc'
\* without a music file.
FpJobs ==
    { j \in [audio : AudioLists, midi : FileBytes \cup {None},
             mode : Modes, model : DemucsModels] :
        j.mode = "abc" => (j.audio # << >> \/ j.midi # None) }

\* CacheResolver.get_file_hash: the SHA-256 digest of the file's bytes; the
\* digest is taken as free of collisions.
GetFileHash(bytes) == [sha256 |-> bytes]

\* digest[:n]: the first n hexadecimal digits of a digest, taken as free of
\* collisions too.
HexPrefix(digest, n) == [digest |-> digest, digits |-> n]

\* Line 482: the first audio file whose stem does not contain 'vocals',
\* else the first audio file.
MainAudio(audio) ==
    IF \E i \in 1..Len(audio) : audio[i].stem # "vocals"
    THEN audio[CHOOSE i \in 1..Len(audio) :
                  /\ audio[i].stem # "vocals"
                  /\ \A k \in 1..(i - 1) : audio[k].stem = "vocals"]
    ELSE audio[1]

\* Lines 485-491: the two parts of the fingerprint; without an audio file
\* the first part is the text 'no_audio'.
FileFingerprint(j) ==
    IF j.audio # << >>
    THEN HexPrefix(GetFileHash(MainAudio(j.audio).bytes), 12)
    ELSE HexPrefix([literal |-> "no_audio"], 8)
ModeKey(j) == <<j.mode, IF j.mode = "abc" THEN j.model ELSE "na">>
SettingsFingerprint(j) == HexPrefix([sha256 |-> ModeKey(j)], 8)

\* Line 493: fingerprint = f"{file_fingerprint}_{settings_fingerprint}".
Fingerprint(j) == [file |-> FileFingerprint(j), settings |-> SettingsFingerprint(j)]

\* A job arrives: the first, then a second one.
SubmitJob(j) ==
    /\ \/ /\ fpFirst.state = "idle"
          /\ fpFirst' = [state |-> "submitted", job |-> j, fingerprint |-> NoFingerprint]
          /\ UNCHANGED fpSecond
       \/ /\ fpFirst.state = "computed"
          /\ fpSecond.state = "idle"
          /\ fpSecond' = [state |-> "submitted", job |-> j, fingerprint |-> NoFingerprint]
          /\ UNCHANGED fpFirst
    /\ UNCHANGED <<taskVars, mfVars, cacheVars, swVars, moreVars>>

\* The worker computes the fingerprint of the job that has arrived last.
ComputeFingerprint ==
    /\ \/ /\ fpFirst.state = "submitted"
          /\ fpFirst' = [fpFirst EXCEPT !.state = "computed",
                                        !.fingerprint = Fingerprint(fpFirst.job)]
          /\ UNCHANGED fpSecond
       \/ /\ fpSecond.state = "submitted"
          /\ fpSecond' = [fpSecond EXCEPT !.state = "computed",
                                          !.fingerprint = Fingerprint(fpSecond.job)]
          /\ UNCHANGED fpFirst
    /\ UNCHANGED <<taskVars, mfVars, cacheVars, swVars, moreVars>>

InitFingerprint ==
    /\ InitFingerprintIdle
    /\ InitSweepIdle
    /\ InitMoreIdle
    /\ InitTask
    /\ InitManifestIdle
    /\ InitCacheIdle

NextFingerprint ==
    \/ \E j \in FpJobs : SubmitJob(j)
    \/ ComputeFingerprint

SpecFingerprint == InitFingerprint /\ [][NextFingerprint]_vars

\* The input files of a job, whatever the order they are listed in, and its
\* settings.
InputFiles(j) == [audio |-> Range(j.audio), midi |-> j.midi]
Settings(j) == <<j.mode, j.model>>
FileNamesOf(j) == [audio |-> {f.stem : f \in Range(j.audio)}, midi |-> j.midi # None]
BothComputed == fpFirst.state = "computed" /\ fpSecond.state = "computed"

\* C13: the fingerprint is a function of the bytes of the input files and of
\* the settings (mode, model): equal files and settings give equal
\* fingerprints, other settings with the same files give another
\* fingerprint, other bytes in the same files with the same settings give
\* another fingerprint.
C13_FingerprintFunction ==
    BothComputed =>
       LET a == fpFirst.job
           b == fpSecond.job
           same == fpFirst.fingerprint = fpSecond.fingerprint
       IN /\ (InputFiles(a) = InputFiles(b) /\ Settings(a) = Settings(b)) => same
          /\ (InputFiles(a) = InputFiles(b) /\ Settings(a) # Settings(b)) => ~same
          /\ (/\ FileNamesOf(a) = FileNamesOf(b)
              /\ InputFiles(a) # InputFiles(b)
              /\ Settings(a) = Settings(b)) => ~same


\* The stage of the asset before AssetOrder[k] has been settled: by a hit,
\* or by a miss, its execution and the call that writes its manifest.
EarlierSettled(t, k) == obs[t].stage[AssetOrder[k - 1]] \in {"hit", "written"}

\* C14 as it stands: within one task the asset types are resolved in the
\* order stems, midi, abc_files, chords, and an asset type is resolved only
\* after the one before it has been resolved and, on a miss, executed and
\* its manifest written.
C14_EarlierStageWritten ==
    \A t \in TaskIds : \A k \in 2..Len(AssetOrder) :
       (Processing(t) /\ obs[t].stage[AssetOrder[k]] # "idle") => EarlierSettled(t, k)

\* C14, amended: an asset type is resolved only after the one before it has
\* been resolved and, on a miss, its execution has ended; its manifest has
\* then been written, except for abc_files when the ABC generation has
\* failed or given nothing, in which case chords is resolved with no
\* manifest written for abc_files.
C14_EarlierStageEnded ==
    \A t \in TaskIds : \A k \in 2..Len(AssetOrder) :
       (Processing(t) /\ obs[t].stage[AssetOrder[k]] # "idle") =>
          \/ EarlierSettled(t, k)
          \/ AssetOrder[k - 1] = "abc_files" /\ obs[t].stage["abc_files"] = "done"

\* C14, its case: chords has been resolved in a task whose stems, MIDI and
\* ABC files have all been made anew.
C14_Witness ==
    \E t \in TaskIds :
       /\ Processing(t)
       /\ obs[t].stage["chords"] # "idle"
       /\ \A k \in 1..3 : obs[t].stage[AssetOrder[k]] = "written"


(***************************************************************************)
(* Properties of the installations                                         *)
(***************************************************************************)

\* The installations in progress: the tasks whose worker has been started
\* and has not left its finally block.
InstallsInProgress == {t \in DOMAIN pc : pc[t] \notin {"unborn", "done"}}

\* C15: at most one installation is in progress at any time, and it holds
\* the lock; a step taken while the lock is held stores no task and starts
\* no worker, and an install request answered 'waiting' arrived while the
\* lock was held and changes nothing: it is not queued.
C15_OneInstallAtATime ==
    [][/\ Cardinality(InstallsInProgress') <= 1
       /\ InstallsInProgress' # {} => INSTALL_LOCK'
       /\ INSTALL_LOCK =>
             /\ DOMAIN TASKS' = DOMAIN TASKS
             /\ \A t \in DOMAIN pc : pc[t] = "unborn" => pc'[t] = "unborn"
       /\ response'.status = "waiting" =>
             /\ INSTALL_LOCK
             /\ UNCHANGED <<TASKS, INSTALL_LOCK, pc, job, loc, proc, timer, obs>>]_vars

\* C15, its case: an install request has been answered 'waiting' while
\* another installation was running, and no second task has been made.
C15_Witness ==
    /\ response.status = "waiting"
    /\ InstallsInProgress = {"t1"}
    /\ DOMAIN TASKS = {"t1"}
    /\ TASKS["t1"].status \notin TerminalStatuses

(***************************************************************************)
(* The model artifact registry: utils.py,                                  *)
(* sub_process/global_model_state_watcher.py and the status rebuild of     *)
(* model_manager.py                                                        *)
(***************************************************************************)

\* How many runs of the sweep, and how many status rebuilds, are followed.
MaxSweeps == 2
MaxBuilds == 1

\* The paths under the models root (HF_HOME), and the parts of each.
SweepPaths == {"hub/mA/blob", "hub/mA/link", "hub/mB/blob", "hub/stray",
               "hub/.locks/mA.lock", "hub/.DS_Store", "xet/part",
               "download_stats.json"}
Parts ==
    [p \in SweepPaths |->
        CASE p = "hub/mA/blob"         -> <<"hub", "mA", "blob">>
          [] p = "hub/mA/link"         -> <<"hub", "mA", "link">>
          [] p = "hub/mB/blob"         -> <<"hub", "mB", "blob">>
          [] p = "hub/stray"           -> <<"hub", "stray">>
          [] p = "hub/.locks/mA.lock"  -> <<"hub", ".locks", "mA.lock">>
          [] p = "hub/.DS_Store"       -> <<"hub", ".DS_Store">>
          [] p = "xet/part"            -> <<"xet", "part">>
          [] p = "download_stats.json" -> <<"download_stats.json">>]

\* The names that start with a dot.
DotNames == {".locks", ".DS_Store"}

\* utils.is_path_excluded, on the parts of a path below the models root.
IsPathExcluded(parts) ==
    \/ parts[1] = "solasola_manifests"
    \/ Len(parts) = 1 /\ parts[1] = "xet"
    \/ \E i \in 1..Len(parts) : parts[i] = ".locks"
    \/ parts[Len(parts)] \in DotNames
    \/ parts[Len(parts)] = "download_stats.json"

\* Lines 46-47: os.walk does not descend into an excluded directory.
Walked(p) ==
    \A k \in 1..(Len(Parts[p]) - 1) : ~IsPathExcluded(SubSeq(Parts[p], 1, k))

\* What a path holds: nothing, a regular file with its bytes, or a symbolic
\* link with its target.
NoEntry == [kind |-> "none", data |-> None]
RegularFile(bytes) == [kind |-> "file", data |-> bytes]
Symlink(target) == [kind |-> "symlink", data |-> target]

\* Path.is_file and Path.exists follow a symbolic link.
IsFile(R, p) == p \in DOMAIN R /\ R[p].kind = "file"
Exists(R, p) ==
    /\ p \in DOMAIN R
    /\ \/ R[p].kind = "file"
       \/ R[p].kind = "symlink" /\ IsFile(R, R[p].data)

\* utils.calculate_file_hash: a link is hashed by its target string, a file
\* by its bytes, anything else gives "N/A".
CalculateFileHash(R, p) ==
    IF p \in DOMAIN R /\ R[p].kind = "symlink" THEN [sha256 |-> R[p].data]
    ELSE IF IsFile(R, p) THEN [sha256 |-> R[p].data]
    ELSE [sha256 |-> "N/A"]

\* os.remove of each path of a set.
RemoveAll(R, S) == [p \in DOMAIN R |-> IF p \in S THEN NoEntry ELSE R[p]]

\* The content of a manifest file: none, text that json.load rejects, or the
\* object written at install time.
ManifestNames == {"hf_mA.json", "demucs_mB.json"}
NoManifest == [t |-> "absent", repo_id |-> None, files |-> << >>]
BrokenManifest == [t |-> "text", repo_id |-> None, files |-> << >>]
ModelManifest(repo_id, files) == [t |-> "object", repo_id |-> repo_id, files |-> files]

\* Lines 29-41: the manifests whose file list was read, and the known files.
ManifestsToCheck(M) == {m \in DOMAIN M : M[m].t = "object"}
KnownFiles(M) == UNION {{f.path : f \in Range(M[m].files)} : m \in ManifestsToCheck(M)}

\* Lines 43-55: the files the walk finds that are neither excluded nor known.
OrphanedFiles(R, M) ==
    {p \in DOMAIN R : /\ R[p].kind # "none"
                      /\ Walked(p)
                      /\ ~IsPathExcluded(Parts[p])
                      /\ p \notin KnownFiles(M)}

\* Lines 60-61: the entries of the manifests read, manifest after manifest
\* in the order glob listed them.
RECURSIVE FilesInOrder(_, _, _)
FilesInOrder(M, order, i) ==
    IF i > Len(order) THEN << >>
    ELSE (IF order[i] \in ManifestsToCheck(M) THEN M[order[i]].files ELSE << >>)
         \o FilesInOrder(M, order, i + 1)

\* Lines 62-66: an entry that exists and whose hash differs is removed; the
\* result is the root and the set of files removed.
RECURSIVE VerifyKnownFiles(_, _, _, _)
VerifyKnownFiles(R, list, i, removed) ==
    IF i > Len(list) THEN [root |-> R, removed |-> removed]
    ELSE LET f == list[i]
         IN IF Exists(R, f.path) /\ CalculateFileHash(R, f.path) # f.hash
            THEN VerifyKnownFiles(RemoveAll(R, {f.path}), list, i + 1, removed \cup {f.path})
            ELSE VerifyKnownFiles(R, list, i + 1, removed)

\* Lines 70-76: the manifests read that list a file which does not exist.
OrphanedManifests(R, M) ==
    {m \in ManifestsToCheck(M) : \E f \in Range(M[m].files) : ~Exists(R, f.path)}

\* A variant of cleanup that treats no file as known.
CleanupNothingKnown(R, M, order) ==
    LET orphans == {p \in DOMAIN R : /\ R[p].kind # "none"
                                     /\ Walked(p)
                                     /\ ~IsPathExcluded(Parts[p])}
        R2 == RemoveAll(R, orphans)
        v == VerifyKnownFiles(R2, FilesInOrder(M, order, 1), 1, {})
        dangling == OrphanedManifests(v.root, M)
    IN [root |-> v.root,
        manifests |-> [m \in DOMAIN M |-> IF m \in dangling THEN NoManifest ELSE M[m]],
        orphans |-> orphans, corrupted |-> v.removed, dangling |-> dangling]

\* cleanup(): the orphaned files, then the corrupted files, then the
\* manifests that list a missing file.
Cleanup(R, M, order) ==
    LET orphans == OrphanedFiles(R, M)
        R2 == RemoveAll(R, orphans)
        v == VerifyKnownFiles(R2, FilesInOrder(M, order, 1), 1, {})
        dangling == OrphanedManifests(v.root, M)
    IN [root |-> v.root,
        manifests |-> [m \in DOMAIN M |-> IF m \in dangling THEN NoManifest ELSE M[m]],
        orphans |-> orphans, corrupted |-> v.removed, dangling |-> dangling]

\* The orders in which glob may list the manifests.
SweepOrders == {<<"hf_mA.json", "demucs_mB.json">>, <<"demucs_mB.json", "hf_mA.json">>}

\* One run of the sweep.
RunCleanup(order) ==
    /\ lastSweep.runs < MaxSweeps
    /\ \E c \in {Cleanup(models_root, manifest_dir, order)} :
          /\ models_root' = c.root
          /\ manifest_dir' = c.manifests
          /\ lastSweep' = [runs |-> lastSweep.runs + 1, orphans |-> c.orphans,
                           corrupted |-> c.corrupted, dangling |-> c.dangling]
    /\ UNCHANGED <<status_cache, lastDelete>>
    /\ UNCHANGED <<taskVars, mfVars, cacheVars, fpVars, moreVars>>

\* Lines 269-298 of model_manager.py: the repo ids of the manifests that
\* json.load reads.
InstalledRepoIds(M) == {M[m].repo_id : m \in {n \in DOMAIN M : M[n].t = "object"}}

\* A variant of _build_model_status_cache that never runs the sweep.
BuildModelStatusCacheNoCleanup(ran, order) ==
    /\ status_cache.builds < MaxBuilds
    /\ status_cache' = [builds |-> status_cache.builds + 1, swept |-> ran,
                        installed |-> InstalledRepoIds(manifest_dir)]
    /\ UNCHANGED <<models_root, manifest_dir, lastSweep, lastDelete>>
    /\ UNCHANGED <<taskVars, mfVars, cacheVars, fpVars, moreVars>>

\* _build_model_status_cache: the sweep runs as a subprocess (ran is FALSE
\* when it could not be run, which is logged), then the manifests are read.
BuildModelStatusCache(ran, order) ==
    /\ status_cache.builds < MaxBuilds
    /\ ran => lastSweep.runs < MaxSweeps
    /\ \E c \in {IF ran THEN Cleanup(models_root, manifest_dir, order)
                 ELSE [root |-> models_root, manifests |-> manifest_dir,
                       orphans |-> {}, corrupted |-> {}, dangling |-> {}]} :
          /\ models_root' = c.root
          /\ manifest_dir' = c.manifests
          /\ lastSweep' = IF ran
                          THEN [runs |-> lastSweep.runs + 1, orphans |-> c.orphans,
                                corrupted |-> c.corrupted, dangling |-> c.dangling]
                          ELSE lastSweep
          /\ status_cache' = [builds |-> status_cache.builds + 1, swept |-> ran,
                              installed |-> InstalledRepoIds(c.manifests)]
    /\ UNCHANGED lastDelete
    /\ UNCHANGED <<taskVars, mfVars, cacheVars, fpVars, moreVars>>

(***************************************************************************)
(* model_manager.delete_model_from_manifest and the 'delete' action of     *)
(* manage_model                                                            *)
(***************************************************************************)

\* How many delete requests are followed.
MaxDeletes == 1

\* The deletion_path values a caller may send, as path parts: the path the
\* status list gives out, a bare name, a name with leading dot, a namesake
\* in another directory, paths that climb out of the directory, and a name
\* no manifest has.
DeletionPaths ==
    {<<"solasola_manifests", "hf_mA.json">>, <<"demucs_mB.json">>,
     <<".hf_mA.json">>, <<"hub", "hf_mA.json">>,
     <<"..", "hub", "mA", "blob">>, <<"..">>, <<"solasola_manifests", "none.json">>}

\* Path(deletion_path).name: the last part.
PathName(parts) == parts[Len(parts)]

\* werkzeug's secure_filename on the names above: separators cannot occur in
\* a single part, leading dots are stripped, ".." gives the empty name.
SecureFilename(name) ==
    CASE name = ".."          -> ""
      [] name = ".hf_mA.json" -> "hf_mA.json"
      [] OTHER                -> name

\* A variant that takes the caller's path as it is.
ManifestLocationAsSent(parts) ==
    [dir |-> SubSeq(parts, 1, Len(parts) - 1), name |-> PathName(parts)]

\* Lines 136-144 of model_manager.py and line 308 of app.py: the manifest is
\* looked for under the sanitized name in the manifest directory.
ManifestLocation(parts) ==
    [dir |-> <<"solasola_manifests">>, name |-> SecureFilename(PathName(parts))]

\* manifest_path.is_file().
ManifestIsFile(M, at) ==
    /\ at.dir = <<"solasola_manifests">>
    /\ at.name \in DOMAIN M
    /\ M[at.name].t # "absent"

\* Lines 155-161: the listed paths that are a file or a link.
ListedFiles(R, data) ==
    {f.path : f \in {g \in Range(data.files) : R[g.path].kind \in {"file", "symlink"}}}

\* delete_model_from_manifest: False when the manifest is no file or cannot
\* be parsed; otherwise the listed files and then the manifest are removed.
DeleteModelFromManifest(R, M, at) ==
    IF ~ManifestIsFile(M, at) \/ M[at.name].t = "text"
    THEN [success |-> FALSE, root |-> R, manifests |-> M, at |-> at]
    ELSE [success |-> TRUE,
          root |-> RemoveAll(R, ListedFiles(R, M[at.name])),
          manifests |-> [M EXCEPT ![at.name] = NoManifest],
          at |-> at]

\* No delete request was made yet.  holds: a delete request holds the install
\* lock.
NoDelete ==
    [calls |-> 0, at |-> [dir |-> << >>, name |-> None], status |-> None, holds |-> FALSE]

\* manage_model, action 'delete', with the install lock free: the lock is
\* taken, the model deleted and the lock released.
ManageModelDelete(deletion_path) ==
    /\ ~INSTALL_LOCK
    /\ lastDelete.calls < MaxDeletes
    /\ \E d \in {DeleteModelFromManifest(models_root, manifest_dir,
                                         ManifestLocation(deletion_path))} :
          /\ models_root' = d.root
          /\ manifest_dir' = d.manifests
          /\ lastDelete' = [calls |-> lastDelete.calls + 1, at |-> d.at,
                            status |-> IF d.success THEN "ok" ELSE "error",
                            holds |-> FALSE]
    /\ UNCHANGED <<lastSweep, status_cache>>
    /\ UNCHANGED <<taskVars, mfVars, cacheVars, fpVars, moreVars>>

\* The bytes a model file may hold; "x" is what was downloaded.
ModelBytes == {"x", "y"}

\* The entries of the two manifests as written at install time, in either
\* order of the scan.
EntryBlobA == [path |-> "hub/mA/blob", hash |-> [sha256 |-> "x"]]
EntryLinkA == [path |-> "hub/mA/link", hash |-> [sha256 |-> "hub/mA/blob"]]
EntryBlobB == [path |-> "hub/mB/blob", hash |-> [sha256 |-> "x"]]
ManifestsA == {NoManifest, BrokenManifest,
               ModelManifest("mA", <<EntryBlobA, EntryLinkA>>),
               ModelManifest("mA", <<EntryLinkA, EntryBlobA>>)}
ManifestsB == {NoManifest, BrokenManifest, ModelManifest("mB", <<EntryBlobB>>)}

\* The models root before a sweep: each model file intact, changed or gone,
\* the link intact, retargeted, broken or gone, a stray file or none, and
\* the files of the excluded places.
InitSweep ==
    /\ \E a \in {NoEntry} \cup {RegularFile(b) : b \in ModelBytes},
          l \in {NoEntry, Symlink("hub/mA/blob"), Symlink("hub/mB/blob"), Symlink("hub/gone")},
          b \in {NoEntry} \cup {RegularFile(b) : b \in ModelBytes},
          s \in {NoEntry, RegularFile("x")} :
          models_root = [p \in SweepPaths |->
                            CASE p = "hub/mA/blob" -> a
                              [] p = "hub/mA/link" -> l
                              [] p = "hub/mB/blob" -> b
                              [] p = "hub/stray"   -> s
                              [] OTHER             -> RegularFile("x")]
    /\ \E ma \in ManifestsA, mb \in ManifestsB :
          manifest_dir = [m \in ManifestNames |->
                             IF m = "hf_mA.json" THEN ma ELSE mb]
    /\ lastSweep = [runs |-> 0, orphans |-> {}, corrupted |-> {}, dangling |-> {}]
    /\ status_cache = [builds |-> 0, swept |-> FALSE, installed |-> {}]
    /\ lastDelete = NoDelete
    /\ InitFingerprintIdle
    /\ InitMoreIdle
    /\ InitTask
    /\ InitManifestIdle
    /\ InitCacheIdle

NextSweep ==
    \/ \E order \in SweepOrders : RunCleanup(order)
    \/ \E ran \in BOOLEAN, order \in SweepOrders : BuildModelStatusCache(ran, order)
    \/ \E deletion_path \in DeletionPaths : ManageModelDelete(deletion_path)

SpecSweep == InitSweep /\ [][NextSweep]_vars

(***************************************************************************)
(* The specification of a download beside the sweep: the files that the    *)
(* installer subprocess (sub_process/install_model.py) or the stem model   *)
(* download (process_audio lines 640-656) writes under the models root,    *)
(* the manifest written afterwards, and the sweep run by status queries    *)
(***************************************************************************)

\* The models that can be downloaded: mA through an installation, mB as the
\* stem model of a processing task; the files of each in the order they are
\* written, what is written, and the name of the manifest.
Models == {"mA", "mB"}
ModelFiles(m) == IF m = "mA" THEN <<"hub/mA/blob", "hub/mA/link">> ELSE <<"hub/mB/blob">>
Written(p) == IF p = "hub/mA/link" THEN Symlink("hub/mA/blob") ELSE RegularFile("x")
ManifestFileOf(m) == IF m = "mA" THEN "hf_mA.json" ELSE "demucs_mB.json"

NoDownload == [model |-> None, pc |-> "idle", next |-> 0, initial |-> {}]

\* demucs_download_watcher.get_current_state (lines 12-37): the files the
\* walk finds outside the excluded places.
GetCurrentState(R) ==
    {p \in DOMAIN R : R[p].kind # "none" /\ Walked(p) /\ ~IsPathExcluded(Parts[p])}

\* The manifest entries of the files of list that are in the set present,
\* in the order of list.
RECURSIVE EntriesOf(_, _, _, _)
EntriesOf(R, list, present, i) ==
    IF i > Len(list) THEN << >>
    ELSE (IF list[i] \in present
          THEN <<[path |-> list[i], hash |-> CalculateFileHash(R, list[i])]>>
          ELSE << >>)
         \o EntriesOf(R, list, present, i + 1)

DownloadFrame ==
    UNCHANGED <<taskVars, mfVars, cacheVars, fpVars, rpVars, sseVars, dirVars, xet, mx,
                lastSweep, status_cache, lastDelete>>

\* install_model_wrapper line 87 (the installer subprocess is started) and
\* process_audio lines 642-651 (the watcher records the files present, then
\* prepare_demucs_model starts): the download of a model that has no
\* manifest begins.
BeginDownload(m) ==
    /\ dl.pc = "idle"
    /\ manifest_dir[ManifestFileOf(m)] = NoManifest
    /\ dl' = [model |-> m, pc |-> "downloading", next |-> 1,
              initial |-> IF m = "mB" THEN GetCurrentState(models_root) ELSE {}]
    /\ UNCHANGED <<models_root, manifest_dir>>
    /\ DownloadFrame

\* The download writes the next file of the model.
DownloadWrite ==
    /\ dl.pc = "downloading"
    /\ dl.next <= Len(ModelFiles(dl.model))
    /\ models_root' = [models_root EXCEPT ![ModelFiles(dl.model)[dl.next]] =
                                             Written(ModelFiles(dl.model)[dl.next])]
    /\ dl' = [dl EXCEPT !.next = @ + 1]
    /\ UNCHANGED manifest_dir
    /\ DownloadFrame

\* install_model_wrapper lines 149-155 and process_audio line 651: the
\* download has ended.
DownloadEnds ==
    /\ dl.pc = "downloading"
    /\ dl.next > Len(ModelFiles(dl.model))
    /\ dl' = [dl EXCEPT !.pc = "downloaded"]
    /\ UNCHANGED <<models_root, manifest_dir>>
    /\ DownloadFrame

\* model_manager.create_manifest_for_model (lines 185-219, called at line
\* 233 of install_model_wrapper): the files found in the model directory are
\* listed, and no manifest is written when none is found;
\* demucs_download_watcher.stop_watching_and_register (lines 57-113): the
\* files that were not present at the start are listed, and no manifest is
\* written when there is none.
RegisterModel ==
    /\ dl.pc = "downloaded"
    /\ LET m == dl.model
           present == {p \in Range(ModelFiles(m)) : models_root[p].kind # "none"}
           found == IF m = "mA" THEN present
                    ELSE present \cap (GetCurrentState(models_root) \ dl.initial)
       IN IF found = {}
          THEN /\ dl' = [dl EXCEPT !.pc = IF m = "mA" THEN "failed" ELSE "unregistered"]
               /\ UNCHANGED manifest_dir
          ELSE /\ dl' = [dl EXCEPT !.pc = "registered"]
               /\ manifest_dir' = [manifest_dir EXCEPT ![ManifestFileOf(m)] =
                                      ModelManifest(m, EntriesOf(models_root, ModelFiles(m), found, 1))]
    /\ UNCHANGED models_root
    /\ DownloadFrame

\* The models root and the manifest directory with the models of the set
\* installed, each with its files and its manifest, and the files of the
\* excluded places.
InstalledRoot(installed) ==
    [p \in SweepPaths |->
        IF \E m \in Models : p \in Range(ModelFiles(m))
        THEN IF \E m \in installed : p \in Range(ModelFiles(m))
             THEN Written(p) ELSE NoEntry
        ELSE IF p = "hub/stray" THEN NoEntry ELSE RegularFile("x")]
InstalledManifests(installed) ==
    [n \in ManifestNames |->
        IF \E m \in installed : n = ManifestFileOf(m)
        THEN LET m == CHOOSE x \in installed : n = ManifestFileOf(x)
             IN ModelManifest(m, EntriesOf([p \in SweepPaths |-> Written(p)],
                                           ModelFiles(m), SweepPaths, 1))
        ELSE NoManifest]

\* The models root before a download: each model either installed, with its
\* files and its manifest, or absent.
InitDownload ==
    /\ \E installed \in SUBSET Models :
          /\ models_root = InstalledRoot(installed)
          /\ manifest_dir = InstalledManifests(installed)
    /\ lastSweep = [runs |-> 0, orphans |-> {}, corrupted |-> {}, dangling |-> {}]
    /\ status_cache = [builds |-> 0, swept |-> FALSE, installed |-> {}]
    /\ lastDelete = NoDelete
    /\ dl = NoDownload
    /\ xet = << >>
    /\ mx = << >>
    /\ InitFingerprintIdle
    /\ InitReaperIdle /\ InitSseIdle /\ InitDirsIdle
    /\ InitTask
    /\ InitManifestIdle
    /\ InitCacheIdle

NextDownload ==
    \/ \E m \in Models : BeginDownload(m)
    \/ DownloadWrite
    \/ DownloadEnds
    \/ RegisterModel
    \/ \E order \in SweepOrders : RunCleanup(order)
    \/ \E ran \in BOOLEAN, order \in SweepOrders : BuildModelStatusCache(ran, order)

SpecDownload == InitDownload /\ [][NextDownload]_vars

(***************************************************************************)
(* Claims about the sweep                                                  *)
(***************************************************************************)

\* This step is a run of the sweep.
SweepRuns == lastSweep'.runs = lastSweep.runs + 1

\* The files some manifest lists, and the files that lie in no excluded
\* place.
Referenced(M) ==
    {p \in SweepPaths : \E m \in DOMAIN M :
        M[m].t = "object" /\ \E f \in Range(M[m].files) : f.path = p}
OutsideExcluded(p) ==
    \A k \in 1..Len(Parts[p]) : ~IsPathExcluded(SubSeq(Parts[p], 1, k))

\* Every file a manifest lists is present with the hash the manifest records.
ValidManifest(R, data) ==
    /\ data.t = "object"
    /\ \A f \in Range(data.files) :
          Exists(R, f.path) /\ CalculateFileHash(R, f.path) = f.hash

\* C16: when every manifest in the manifest directory is valid, one run of
\* the sweep deletes exactly the files that no manifest lists and that lie
\* outside the excluded places, leaves every other file as it was, and
\* deletes no manifest.
C16_OrphanSweep ==
    [][(/\ SweepRuns
        /\ \A m \in ManifestNames :
              manifest_dir[m].t # "absent" => ValidManifest(models_root, manifest_dir[m]))
       => LET unreferenced == {p \in SweepPaths :
                                  /\ models_root[p].kind # "none"
                                  /\ p \notin Referenced(manifest_dir)
                                  /\ OutsideExcluded(p)}
          IN /\ \A p \in unreferenced : models_root'[p] = NoEntry
             /\ \A p \in SweepPaths \ unreferenced : models_root'[p] = models_root[p]
             /\ manifest_dir' = manifest_dir]_vars

\* A sweep has deleted the stray file and nothing else, next to a model
\* whose manifest and files are in place.
C16_Witness ==
    /\ lastSweep.runs = 1
    /\ lastSweep.orphans = {"hub/stray"}
    /\ lastSweep.corrupted = {}
    /\ lastSweep.dangling = {}
    /\ manifest_dir["hf_mA.json"].t = "object"
    /\ Exists(models_root, "hub/mA/blob")
    /\ Exists(models_root, "hub/mA/link")

\* The entries of a manifest whose file is there with another hash than the
\* manifest records.
ChangedEntries(R, data) ==
    {f \in Range(data.files) :
        /\ f.path \in DOMAIN R
        /\ R[f.path].kind # "none"
        /\ CalculateFileHash(R, f.path) # f.hash}

\* C17: when a manifest lists a file that is there with another hash than
\* the manifest records, a run of the sweep deletes the file in its
\* corruption pass and the manifest in its last pass.
C17_CorruptionSweep ==
    [][SweepRuns =>
         \A m \in ManifestNames :
            manifest_dir[m].t = "object" =>
               \A f \in ChangedEntries(models_root, manifest_dir[m]) :
                  /\ f.path \in lastSweep'.corrupted
                  /\ models_root'[f.path] = NoEntry
                  /\ m \in lastSweep'.dangling
                  /\ manifest_dir'[m] = NoManifest]_vars

\* C18: a run of the sweep that follows an earlier run, with nothing changed
\* in between, deletes no file and no manifest.
C18_SweepIdempotent ==
    [][(SweepRuns /\ lastSweep.runs >= 1) =>
          /\ models_root' = models_root
          /\ manifest_dir' = manifest_dir]_vars

\* This step is a rebuild of the model status.
BuildRuns == status_cache'.builds = status_cache.builds + 1

WorkerEnds(t) == pc[t] = "im_finally" /\ pc'[t] = "done"

\* C20: when the worker of an installation ends with status completed the
\* manifest of the model is written, and when it ends with status failed no
\* model directory is there.
C20_InstallOutcome ==
    [][\A t \in DOMAIN pc :
          WorkerEnds(t) =>
             /\ TASKS'[t].status = "completed" => manifest_path'
             /\ TASKS'[t].status = "failed" => model_path' = "absent"]_vars

(***************************************************************************)
(* Claims about the deletion of a model                                    *)
(***************************************************************************)

\* This step is a delete request.
DeleteRuns == lastDelete'.calls = lastDelete.calls + 1

\* The delete request removed the files the manifest listed and the
\* manifest, changed nothing else and answered ok.
DeletedAll(name) ==
    /\ \A f \in Range(manifest_dir[name].files) : models_root'[f.path] = NoEntry
    /\ \A p \in SweepPaths :
          p \notin {f.path : f \in Range(manifest_dir[name].files)}
             => models_root'[p] = models_root[p]
    /\ manifest_dir' = [manifest_dir EXCEPT ![name] = NoManifest]
    /\ lastDelete'.status = "ok"

\* The delete request changed nothing and answered with an error.
DeletedNothing ==
    /\ models_root' = models_root
    /\ manifest_dir' = manifest_dir
    /\ lastDelete'.status = "error"

OwnsLiveProcess(t) == TASKS[t].process # None /\ proc[t] = "live"

\* A cancel request for task t takes effect in this step: the flag goes up
\* or the subprocess is ended from outside.
CancelSeen(t) ==
    \/ ~TASKS[t].cancel_requested /\ TASKS'[t].cancel_requested
    \/ proc[t] # "killed" /\ proc'[t] = "killed"

\* C22: a cancel request leaves cancel_requested set and changes no other
\* field of the task record nor the position or the locals of any worker;
\* when the task owns the handle of a running subprocess, that subprocess
\* has ended when the request returns; a subprocess is ended from outside
\* only for a task that owned its handle; and the flag, once set, stays set.
C22_CancelRequest ==
    [][\A t \in DOMAIN TASKS :
          /\ CancelSeen(t) =>
                /\ TASKS'[t].cancel_requested
                /\ \A f \in DOMAIN TASKS[t] \ {"cancel_requested"} :
                      TASKS'[t][f] = TASKS[t][f]
                /\ UNCHANGED <<pc, loc, timer, job>>
                /\ OwnsLiveProcess(t) => proc'[t] = "killed"
                /\ proc'[t] # proc[t] => OwnsLiveProcess(t)
                /\ \A u \in DOMAIN proc : u # t => proc'[u] = proc[u]
          /\ (TASKS[t].cancel_requested /\ t \in DOMAIN TASKS') =>
                TASKS'[t].cancel_requested]_vars

\* A cancel request has ended the subprocess of a task whose worker is still
\* at work and whose status is not terminal.
C22_Witness ==
    \E t \in DOMAIN TASKS :
       /\ TASKS[t].cancel_requested
       /\ proc[t] = "killed"
       /\ pc[t] # "done"
       /\ TASKS[t].status \notin TerminalStatuses


\* The text of the ValueError of line 61.
DurationMismatchMessage ==
    "Audio files have significantly different durations. Please process one song at a time."

\* A full-analysis job of two or more audio files too far apart in duration.
MismatchedJob(t) ==
    /\ job[t].mode = "abc"
    /\ job[t].audio >= 2
    /\ \E i, k \in DOMAIN job[t].durations :
          job[t].durations[i] - job[t].durations[k] > 15

\* C23: a full-analysis task of two or more audio files whose durations
\* differ by more than 1.5 seconds never sets up a song (no fingerprint, no
\* result directory), never resolves an asset type, never starts a stage or a
\* subprocess; once its durations are read it is failed with the
\* duration-mismatch message, and it ends failed unless a check point raised
\* the cancellation before the validation.
C23_DurationMismatch ==
    \A t \in DOMAIN TASKS :
        MismatchedJob(t) =>
            /\ pc[t] \in {"pt_begin", "pt_parse_check", "pt_finally", "done"}
            /\ loc[t].song_num = 0
            /\ ~loc[t].result_entry
            /\ \A a \in Range(AssetOrder) : obs[t].stage[a] = "idle"
            /\ proc[t] = "none"
            /\ loc[t].durations # << >> =>
                  /\ TASKS[t].status = "failed"
                  /\ TASKS[t].current_step = DurationMismatchMessage
            /\ (pc[t] = "done" /\ ~obs[t].raised) => TASKS[t].status = "failed"

C23_Witness ==
    \E t \in DOMAIN TASKS :
        /\ MismatchedJob(t)
        /\ pc[t] = "done"
        /\ loc[t].durations = <<1800, 1830>>
        /\ TASKS[t].status = "failed"
        /\ TASKS[t].current_step = DurationMismatchMessage
        /\ TASKS[t].cancel_requested


\* A lyrics-only job of at least one non-empty line and no music file.
LyricsOnlyJob(t) ==
    /\ job[t].mode = "lyrics_only"
    /\ job[t].lyrics /\ job[t].lyric_lines >= 1
    /\ job[t].audio = 0 /\ ~job[t].midi

\* The segments follow one another from 0 to the end of the duration.
Consecutive(segs, total) ==
    /\ segs[1].start = 0
    /\ \A i \in 1..(Len(segs) - 1) : segs[i].end = segs[i + 1].start
    /\ segs[Len(segs)].end = total

\* The lengths of any two segments differ by at most d milliseconds.
EqualWithin(segs, d) ==
    \A i, k \in DOMAIN segs :
        (segs[i].end - segs[i].start) - (segs[k].end - segs[k].start) <= d

\* What C24 says of a task whose segments are equal to within d milliseconds.
LyricsOnlyOutcome(t, d) ==
    LET segs == loc[t].parsed_segments IN
    /\ pc[t] \in {"ps_lyrics_check", "ps_profile", "pt_song_done"}
          => loc[t].audio_duration = 210000
    /\ segs # << >> =>
          /\ Len(segs) = job[t].lyric_lines
          /\ Consecutive(segs, 210000)
          /\ EqualWithin(segs, d)
          /\ Len(segs) = 2 => segs = <<[start |-> 0, end |-> 105000],
                                       [start |-> 105000, end |-> 210000]>>
    /\ pc[t] = "ps_profile"
          => segs # << >>
             \/ \E n \in DOMAIN TASKS[t].ui_logs : TASKS[t].ui_logs[n].type = "warning"
    /\ (pc[t] = "done" /\ ~TASKS[t].cancel_requested
        /\ \A n \in DOMAIN TASKS[t].ui_logs : TASKS[t].ui_logs[n].type # "error")
          => TASKS[t].status = "completed"

C25_Reaper ==
    [][/\ \A t \in DOMAIN TASKS :
             t \notin DOMAIN TASKS' =>
                /\ TASKS[t].status \in {"completed", "failed", "cancelled"}
                /\ TASKS[t].status \notin {"starting", "running"}
                /\ reaper.pc = "deleting" /\ reaper.now = clock
                /\ clock - TASKS[t].timestamp > 7200
       /\ (reaper.pc = "sleeping" /\ reaper' # reaper) =>
             \A t \in DOMAIN TASKS :
                (TASKS[t].status \in {"completed", "failed", "cancelled"}
                 /\ clock - TASKS[t].timestamp > 7200)
                   => t \in reaper'.tasks_to_delete /\ reaper'.pc = "deleting"
       /\ (reaper.pc = "deleting" /\ reaper'.pc = "sleeping") =>
             /\ reaper.tasks_to_delete \cap DOMAIN TASKS' = {}
             /\ clock' = reaper.now
       /\ reaper.pc = "deleting" => reaper'.tasks_to_delete \cap DOMAIN TASKS' # {} \/ reaper'.pc = "sleeping"
       /\ clock' - reaper'.now <= 3600]_vars

C25_Witness ==
    /\ "t1" \notin DOMAIN TASKS /\ wk["t1"].pc # "unborn"
    /\ "t2" \in DOMAIN TASKS
    /\ TASKS["t2"].status = "running"
    /\ clock - TASKS["t2"].timestamp > 7200
    /\ reaper.pc = "sleeping"

\* The worker of t is inside a call of log_to_ui.
InLogToUi(t) == wk[t].pc \in {"log_test", "log_append"}

\* C26: a call of log_to_ui appends exactly one entry at the end of the
\* task's ui_logs and changes no earlier entry, no other field and no other
\* task; ui_logs changes in no other way; for an unknown task id the call
\* changes nothing and returns; and no call raises, also when the reaper
\* removes the record while the call is in progress.
C26_LogToUi ==
    [][\A t \in ReaperIds :
          /\ (t \in DOMAIN TASKS /\ t \in DOMAIN TASKS') =>
                \/ TASKS'[t].ui_logs = TASKS[t].ui_logs
                \/ /\ wk[t].pc = "log_append" /\ wk'[t].pc = wk[t].ret
                   /\ Len(TASKS'[t].ui_logs) = Len(TASKS[t].ui_logs) + 1
                   /\ SubSeq(TASKS'[t].ui_logs, 1, Len(TASKS[t].ui_logs)) = TASKS[t].ui_logs
                   /\ TASKS'[t].ui_logs[Len(TASKS'[t].ui_logs)].message = LogMessages[wk[t].logs]
                   /\ \A f \in DOMAIN TASKS[t] \ {"ui_logs"} : TASKS'[t][f] = TASKS[t][f]
                   /\ \A u \in DOMAIN TASKS \ {t} : u \in DOMAIN TASKS' /\ TASKS'[u] = TASKS[u]
          /\ (wk[t].pc = "log_append" /\ wk'[t].pc = wk[t].ret /\ t \in DOMAIN TASKS) =>
                Len(TASKS'[t].ui_logs) = Len(TASKS[t].ui_logs) + 1
          /\ (wk[t].pc \in {"working", "handled"} /\ wk'[t].logs # wk[t].logs
              /\ t \notin DOMAIN TASKS) =>
                /\ UNCHANGED TASKS
                /\ wk'[t].pc = wk[t].pc
          /\ InLogToUi(t) => wk'[t].pc # "raised"]_vars


\* What a subscriber has been handed so far: the events its stream has
\* yielded, then those waiting in its queue.
Received(s) == streams[s].out \o queues[s]

\* How often the message m is in the sequence q.
Copies(q, m) == Cardinality({n \in DOMAIN q : q[n] = m})

\* The events of one thread stand in q in the order they were sent.
InSendingOrder(q) ==
    \A n, m \in DOMAIN q : (n < m /\ q[n][1] = q[m][1]) => q[n][2] < q[m][2]

\* C27: when a call of broadcast returns, every queue that was subscribed
\* from its beginning to its end holds exactly one copy of the event; the
\* loop walks the list as it was when the call began, whatever subscribes or
\* unsubscribes meanwhile; no queue ever gets an event twice, and the events
\* of one broadcasting thread reach each subscriber in the order sent.
C27_Broadcast ==
    [][/\ \A b \in Broadcasters :
             /\ (bc[b].pc = "iterating" /\ bc'[b].pc = "idle") =>
                   \A s \in bc[b].whole : Copies(Received(s)', <<b, bc[b].sent>>) = 1
             /\ (bc[b].pc = "idle" /\ bc'[b].pc = "iterating") =>
                   bc'[b].snapshot = clients
             /\ (bc[b].pc = "iterating" /\ bc'[b].pc = "iterating") =>
                   /\ bc'[b].snapshot = bc[b].snapshot
                   /\ bc'[b].i > bc[b].i =>
                         /\ bc[b].i <= Len(bc[b].snapshot)
                         /\ queues'[bc[b].snapshot[bc[b].i]] =
                               Append(queues[bc[b].snapshot[bc[b].i]], <<b, bc[b].sent>>)
       /\ \A s \in DOMAIN queues' :
             /\ InSendingOrder(Received(s)')
             /\ \A n \in DOMAIN Received(s)' : Copies(Received(s)', Received(s)'[n]) = 1]_vars

C27_Witness ==
    /\ streams["s2"].pc = "closed"
    /\ bc["b1"].pc = "idle" /\ bc["b1"].sent = 2
    /\ bc["b2"].pc = "idle" /\ bc["b2"].sent = 1
    /\ "s1" \in DOMAIN queues /\ "s2" \in DOMAIN queues
    /\ Copies(Received("s1"), <<"b1", 1>>) = 1
    /\ Copies(Received("s1"), <<"b1", 2>>) = 1
    /\ Copies(Received("s1"), <<"b2", 1>>) = 1
    /\ Received("s2") = <<<<"b1", 1>>>>

\* The queue of s is in the list of subscribers.
Subscribed(s) == \E n \in DOMAIN clients : clients[n] = s

\* A broadcast under way still has the queue of s before it.
StillToReach(s) ==
    \E b \in Broadcasters :
        /\ bc[b].pc = "iterating"
        /\ \E n \in DOMAIN bc[b].snapshot : n >= bc[b].i /\ bc[b].snapshot[n] = s

\* C28: a waiting stream emits within its window the next queued event, or a
\* heartbeat when the queue is empty, so it never stalls; the queue of a
\* client that has gone is taken out of the subscriber list, after which no
\* broadcast that begins delivers to it; and a further unsubscribe of that
\* queue changes nothing.
C28_Stream ==
    /\ \A s \in Subscribers : ~streams[s].connected ~> ~Subscribed(s)
    /\ \A s \in Subscribers : \A k \in 1..(MaxEmits - 1) :
          (streams[s].pc = "waiting" /\ streams[s].emitted = k)
             ~> (streams[s].emitted > k \/ streams[s].pc = "closed")
    /\ [](\A s \in Subscribers : streams[s].pc = "closed" => ~Subscribed(s))
    /\ [][\A s \in Subscribers :
             /\ (streams[s].pc = "waiting" /\ streams'[s].emitted # streams[s].emitted) =>
                   IF queues[s] # << >>
                   THEN /\ streams'[s].out = Append(streams[s].out, Head(queues[s]))
                        /\ queues'[s] = Tail(queues[s])
                   ELSE /\ streams'[s].out = streams[s].out
                        /\ queues'[s] = queues[s]
             /\ (streams[s].pc = "closed" /\ s \in DOMAIN queues /\ ~StillToReach(s)) =>
                   /\ queues'[s] = queues[s]
                   /\ ~StillToReach(s)'
             /\ streams'[s].unsubscribes # streams[s].unsubscribes => clients' = clients]_vars

C28_Witness ==
    /\ streams["s1"].pc = "closed"
    /\ streams["s1"].unsubscribes = 1
    /\ streams["s1"].emitted >= 2
    /\ bc["b1"].pc = "idle" /\ bc["b1"].sent = 2
    /\ "s1" \in DOMAIN queues /\ "s2" \in DOMAIN queues
    /\ Copies(Received("s1"), <<"b1", 2>>) = 0
    /\ Copies(Received("s2"), <<"b1", 2>>) = 1


\* C29: no two tasks use the same result directory, whatever the
\* interleaving, also for tasks with the same fingerprint that form their
\* directory name within the same second.
C29_DistinctResultDirs ==
    \A t, u \in DirTasks :
        (t # u /\ rd[t].pc = "using" /\ rd[u].pc = "using")
           => rd[t].result_dir_name # rd[u].result_dir_name


\* The conversions of task t that returned False.
FailedConversions(t) ==
    {i \in 1..Len(loc[t].results) : ~loc[t].results[i]}

\* Task t takes a step of its worker from the place p.
WorkerLeaves(t, p) == pc[t] = p /\ pc'[t] # p

\* C30: during MIDI transcription a stem whose conversion fails is logged and
\* skipped: the task's status stays as it was, and unless a cancellation is
\* pending at the check point every remaining stem is still attempted; after
\* the last stem the task goes on to notation generation as long as at least
\* one stem yielded a MIDI file.
C30_FailedStem ==
    [][\A t \in MidiIds :
          LET l == loc[t]
              m == loc'[t]
          IN /\ (WorkerLeaves(t, "ps_convert") /\ ~m.results[Len(m.results)])
                   => /\ m.failed_printed = l.failed_printed + 1
                      /\ pc'[t] = "ps_convert_check"
                      /\ TASKS'[t].status = TASKS[t].status
             /\ (WorkerLeaves(t, "ps_convert_check") /\ ~CancellationPending(TASKS, t))
                   => /\ TASKS'[t].status = TASKS[t].status
                      /\ Len(l.results) = l.stem_i + 1
                      /\ l.failed_printed = Cardinality(FailedConversions(t))
                      /\ IF Len(l.results) < l.n_stems
                         THEN pc'[t] = "ps_convert" /\ m.stem_i = l.stem_i + 1
                         ELSE (\E i \in 1..Len(l.results) : l.results[i])
                                 => pc'[t] = "ps_abc"]_vars

\* A task whose first conversion failed and whose second succeeded has gone
\* through all its stems and reached notation generation.
C30_Witness ==
    \E t \in MidiIds :
        /\ pc[t] = "ps_abc"
        /\ loc[t].n_stems = MaxMidiStems
        /\ Len(loc[t].results) = MaxMidiStems
        /\ ~loc[t].results[1]
        /\ loc[t].results[2]
        /\ loc[t].failed_printed >= 1
        /\ TASKS[t].status \notin {"failed", "cancelled"}


\* The outcomes of the analysis steps that are failures.
GenreFailures == {"failed", "no_result", "raised"}
AudioFailures == {"no_structure", "after_tempo", "no_tempo", "raise"}
MidiFailures == {"unparsed", "no_key", "no_time_signature"}

\* Some analysis step of task t has failed.
SomeAnalysisFailed(t) ==
    \/ obs[t].steps["genre"] \in GenreFailures
    \/ obs[t].steps["audio"] \in AudioFailures
    \/ obs[t].steps["midi"] \in MidiFailures

\* The worker of task t has left the block of the music analysis.
PastMusicAnalysis(t) ==
    pc[t] \in {"ps_stems", "ps_midi", "ps_abc", "ps_profile", "pt_song_done",
               "pt_after_loop", "pt_complete", "pt_finally", "done"}

\* A failed analysis step leaves the task's terminal status as it is.
AnalysisKeepsStatus(t) ==
    (pc[t] = "done" /\ SomeAnalysisFailed(t) /\ ~TASKS[t].cancel_requested)
       => TASKS[t].status = "completed"

\* The profile field of a failed analysis step reads "Not Analyzed" (the
\* tempo unless the Mix score supplies it).
AnalysisDegrades(t) ==
    LET p == loc[t].profile
        st == obs[t].steps
    IN p # NoProfile =>
          /\ st["genre"] \in GenreFailures => p["Genre - AI Estimated"] = "Not Analyzed"
          /\ st["audio"] \in AudioFailures => p["Song Structure"] = "Not Analyzed"
          /\ st["audio"] \in {"no_tempo", "raise"}
                => (p["Tempo"] = "Not Analyzed" \/ loc[t].mix_abc)
          /\ st["midi"] \in {"unparsed", "no_key"} => p["Key"] = "Not Analyzed"
          /\ st["midi"] \in {"unparsed", "no_time_signature"}
                => p["Time Signature"] = "Not Analyzed"

\* After a failed analysis step the stages that follow it still run.
AnalysisGoesOn(t) ==
    /\ (obs[t].steps["genre"] \in GenreFailures /\ PastMusicAnalysis(t) /\ ~obs[t].raised)
          => obs[t].steps["audio"] # "idle"
    /\ (SomeAnalysisFailed(t) /\ pc[t] = "done" /\ ~obs[t].raised)
          => /\ \A a \in {"stems", "midi", "abc_files"} : obs[t].stage[a] # "idle"
             /\ loc[t].profile # NoProfile

\* C31: a failure of a single music-analysis step (genre classification,
\* audio feature analysis, MIDI feature analysis) never changes the task's
\* terminal status: the corresponding profile field degrades to
\* "Not Analyzed" and the remaining stages still run.
C31_AnalysisFailure ==
    \A t \in AnalysisIds :
        AnalysisKeepsStatus(t) /\ AnalysisDegrades(t) /\ AnalysisGoesOn(t)


(***************************************************************************)
(* The specification of the delete requests beside an installation: the    *)
(* two requests of manage_model contend for the install lock               *)
(***************************************************************************)

DeleteIds == {"t1"}
\* Most delete requests made.
MaxDeleteRequests == 2

DeleteFrame ==
    UNCHANGED <<TASKS, pc, job, loc, proc, timer, response, obs, hubVars,
                mfVars, cacheVars, fpVars, moreVars, lastSweep, status_cache>>

\* manage_model, action 'delete', lines 302-304: the lock is held and the
\* answer is 'waiting'.
ManageModelDeleteBusy(deletion_path) ==
    /\ INSTALL_LOCK
    /\ lastDelete.calls < MaxDeleteRequests
    /\ lastDelete' = [lastDelete EXCEPT !.calls = @ + 1, !.status = "waiting"]
    /\ UNCHANGED <<INSTALL_LOCK, models_root, manifest_dir>>
    /\ DeleteFrame

\* manage_model, action 'delete', lines 302-308: the lock was free and is
\* taken; the manifest is looked for under the name of the path.
ManageModelDeleteBegin(deletion_path) ==
    /\ ~INSTALL_LOCK
    /\ lastDelete.calls < MaxDeleteRequests
    /\ INSTALL_LOCK' = TRUE
    /\ lastDelete' = [calls |-> lastDelete.calls + 1, at |-> ManifestLocation(deletion_path),
                      status |-> "running", holds |-> TRUE]
    /\ UNCHANGED <<models_root, manifest_dir>>
    /\ DeleteFrame

\* A faulty variant of the end of the delete request: the lock is released
\* only when no exception was raised.
ManageModelDeleteEndNoFinally(raises) ==
    /\ lastDelete.holds
    /\ \E d \in {DeleteModelFromManifest(models_root, manifest_dir, lastDelete.at)} :
          IF raises
          THEN /\ lastDelete' = [lastDelete EXCEPT !.status = "error", !.holds = FALSE]
               /\ UNCHANGED <<models_root, manifest_dir, INSTALL_LOCK>>
          ELSE /\ models_root' = d.root
               /\ manifest_dir' = d.manifests
               /\ lastDelete' = [lastDelete EXCEPT !.status = IF d.success THEN "ok" ELSE "error",
                                                   !.holds = FALSE]
               /\ INSTALL_LOCK' = FALSE
    /\ DeleteFrame

\* manage_model, action 'delete', lines 309-333: the model is deleted and the
\* answer given, 'ok' or an error; raises: an exception reaches the handler
\* of line 329 (the broadcast of line 312 raises, or the manifest holds JSON
\* that is no object); the finally block releases the lock.
ManageModelDeleteEnd(raises) ==
    /\ lastDelete.holds
    /\ \E d \in {DeleteModelFromManifest(models_root, manifest_dir, lastDelete.at)} :
          IF raises
          THEN /\ lastDelete' = [lastDelete EXCEPT !.status = "error", !.holds = FALSE]
               /\ \/ UNCHANGED <<models_root, manifest_dir>>
                  \/ models_root' = d.root /\ manifest_dir' = d.manifests
          ELSE /\ models_root' = d.root
               /\ manifest_dir' = d.manifests
               /\ lastDelete' = [lastDelete EXCEPT !.status = IF d.success THEN "ok" ELSE "error",
                                                   !.holds = FALSE]
    /\ INSTALL_LOCK' = FALSE
    /\ DeleteFrame

\* One installation task, both models installed.
InitDelete ==
    /\ models_root = InstalledRoot(Models)
    /\ manifest_dir = InstalledManifests(Models)
    /\ lastSweep = [runs |-> 0, orphans |-> {}, corrupted |-> {}, dangling |-> {}]
    /\ status_cache = [builds |-> 0, swept |-> FALSE, installed |-> {}]
    /\ lastDelete = NoDelete
    /\ InitFingerprintIdle
    /\ InitMoreIdle
    /\ InitTaskFor(DeleteIds)
    /\ InitManifestIdle
    /\ InitCacheIdle

NextDelete ==
    \/ \E t \in DeleteIds : ManageModelInstall(t)
    \/ \E reason \in {"busy", "invalid"} : ManageModelRefused(reason)
    \/ \E t \in DeleteIds : InstallStep(t)
    \/ \E t \in DeleteIds : CancelTask(t)
    \/ \E t \in DeleteIds, how \in {"exited_ok", "exited_fail"} : ProcExit(t, how)
    \/ \E deletion_path \in DeletionPaths : ManageModelDeleteBusy(deletion_path)
    \/ \E deletion_path \in DeletionPaths : ManageModelDeleteBegin(deletion_path)
    \/ \E raises \in BOOLEAN : ManageModelDeleteEnd(raises)

SpecDelete == InitDelete /\ [][NextDelete]_vars

(***************************************************************************)
(* The specification of the MIDI stages: successive runs of _process_song  *)
(* in abc mode on one input, each in its own result folder, the later ones *)
(* finding the folders of the earlier ones as cache candidates             *)
(***************************************************************************)

\* Most runs.
MaxRuns == 3

\* glob('*.mid') on a directory.
GlobMid(d) == {n \in DOMAIN d.disk : EndsWith(n, ".mid")}

NoCall == [called |-> FALSE, midi_paths |-> {}]
Call(paths) == [called |-> TRUE, midi_paths |-> paths]

\* What the runs share and where the current one stands: the output root
\* (folder -> the midi subdirectory), the number of runs begun, the
\* position, the run's folder, the action of resolve('midi'), the local
\* midi_paths_for_abc, and the calls of convert_midi_to_abc and
\* create_mix_midi of the run (history).
InitMx ==
    [fs |-> [f \in {} |-> ("midi" :> NoDir)], runs |-> 0, pc |-> "idle", own |-> None,
     action |-> None, midi_paths_for_abc |-> {}, to_abc |-> NoCall, to_mix |-> NoCall]

MixFrame ==
    UNCHANGED <<taskVars, mfVars, cacheVars, fpVars, swVars, rpVars, sseVars, dirVars, dl, xet>>

\* process_task_wrapper lines 480-516: a run begins in a fresh result folder.
MixBegin ==
    /\ mx.pc = "idle"
    /\ mx.runs < MaxRuns
    /\ LET dir == <<mx.runs + 1, 1, "fpA">> IN
       mx' = [mx EXCEPT !.fs = (dir :> ("midi" :> NoDir)) @@ @, !.runs = @ + 1,
                        !.pc = "resolve", !.own = dir, !.action = None,
                        !.midi_paths_for_abc = {}, !.to_abc = NoCall, !.to_mix = NoCall]
    /\ MixFrame

\* _process_song line 265: resolve('midi') over the candidates, latest first.
MixResolve ==
    /\ mx.pc = "resolve"
    /\ \E res \in {ResolveFrom(mx.fs, FindCandidateFolders(mx.fs, "fpA"), 1, "midi",
                                mx.own, {}, FALSE, {})} :
          mx' = [mx EXCEPT !.fs = res.fs, !.action = res.action, !.pc = "midi"]
    /\ MixFrame

\* Lines 270 and 272: midi_paths_for_abc is the glob of the directory.
MidiPathsForAbc(d) == GlobMid(d)

\* Lines 266-276: on CREATE_NEW the stems are converted (converted: the
\* stems whose conversion succeeded) and the manifest is written; in both
\* cases the list of MIDI paths is read from the directory; the song ends
\* when it is empty.
MixMidiStage(converted) ==
    /\ mx.pc = "midi"
    /\ (mx.action = "USE_EXISTING") => converted = {}
    /\ LET d0 == mx.fs[mx.own]["midi"]
           d1 == IF mx.action = "CREATE_NEW"
                 THEN WriteManifestForStep("midi",
                          [d0 EXCEPT !.disk = [n \in converted |-> "p"] @@ @])
                 ELSE d0
           paths == MidiPathsForAbc(d1)
       IN mx' = [mx EXCEPT !.fs[mx.own]["midi"] = d1,
                           !.midi_paths_for_abc = paths,
                           !.pc = IF paths = {} THEN "idle" ELSE "abc"]
    /\ MixFrame

\* Lines 292-310: the ABC stage; hit: resolve('abc_files') found the files
\* of an earlier run, and convert_midi_to_abc is not called.
MixAbcStage(hit) ==
    /\ mx.pc = "abc"
    /\ mx' = [mx EXCEPT !.to_abc = IF hit THEN NoCall ELSE Call(mx.midi_paths_for_abc),
                        !.pc = "mix"]
    /\ MixFrame

\* Lines 314-317: create_mix_midi is given the list and writes
\* solasola_mixed.mid into the midi directory; made: whether it succeeded.
MixCreate(made) ==
    /\ mx.pc = "mix"
    /\ mx' = [mx EXCEPT !.to_mix = Call(mx.midi_paths_for_abc),
                        !.fs[mx.own]["midi"].disk =
                            IF made THEN ("solasola_mixed.mid" :> "q") @@ @ ELSE @,
                        !.pc = "idle"]
    /\ MixFrame

InitMix ==
    /\ mx = InitMx
    /\ dl = << >> /\ xet = << >>
    /\ InitFingerprintIdle /\ InitSweepIdle
    /\ InitReaperIdle /\ InitSseIdle /\ InitDirsIdle
    /\ InitTask
    /\ InitManifestIdle
    /\ InitCacheIdle

NextMix ==
    \/ MixBegin
    \/ MixResolve
    \/ \E converted \in SUBSET StemMidiNames : MixMidiStage(converted)
    \/ \E hit \in BOOLEAN : MixAbcStage(hit)
    \/ \E made \in BOOLEAN : MixCreate(made)

SpecMix == InitMix /\ [][NextMix]_vars

(***************************************************************************)
(* Claims about a download beside the sweep                                *)
(***************************************************************************)

\* The files of the model being downloaded that are written and whose
\* manifest is not yet written.
UnregisteredFiles ==
    IF dl.pc \in {"downloading", "downloaded"}
    THEN {p \in Range(ModelFiles(dl.model)) : models_root[p].kind # "none"}
    ELSE {}

\* C32: a consistency sweep that runs concurrently with a model installation
\* or a stem-model download never deletes a file of the model being
\* downloaded before that model's manifest is written.
C32_SweepSparesDownload ==
    [][\A p \in UnregisteredFiles : models_root'[p].kind # "none"]_vars


(***************************************************************************)
(* Claims about the end of an installation                                 *)
(***************************************************************************)

\* C33: when an install task has reached a terminal status and released the
\* install lock, the installer subprocess it started is no longer running,
\* also when the cancel request came before the handle was attached and when
\* the worker ended through an exception.
C33_InstallerStopped ==
    \A t \in InstallIds :
        (t \in DOMAIN TASKS /\ pc[t] = "done" /\ TASKS[t].status \in TerminalStatuses)
            => proc[t] # "live"


\* The step in which the worker of task t releases the install lock it held.
Releases(t) ==
    /\ pc[t] = "im_finally" /\ pc'[t] = "done"
    /\ INSTALL_LOCK /\ ~INSTALL_LOCK'

InstallationHoldsLock == INSTALL_LOCK /\ ~lastDelete.holds

\* A delete request arrives in this step.
DeleteArrives == lastDelete'.calls = lastDelete.calls + 1

\* C35: a model delete request that arrives while an installation holds the
\* global lock is refused with a busy response and deletes no file; a
\* delete that does run holds the lock and releases it on every exit path.
C35_DeleteAndLock ==
    [][/\ (InstallationHoldsLock /\ DeleteArrives) =>
              /\ lastDelete'.status = "waiting"
              /\ ~lastDelete'.holds
              /\ UNCHANGED <<models_root, manifest_dir, INSTALL_LOCK>>
       /\ InstallationHoldsLock => UNCHANGED <<models_root, manifest_dir>>
       /\ (~lastDelete.holds /\ lastDelete'.holds) => (~INSTALL_LOCK /\ INSTALL_LOCK')
       /\ (lastDelete.holds /\ ~lastDelete'.holds) =>
              (INSTALL_LOCK /\ ~INSTALL_LOCK' /\ lastDelete'.status \in {"ok", "error"})
       /\ (lastDelete.holds /\ lastDelete'.holds) => (INSTALL_LOCK /\ INSTALL_LOCK')]_vars

\* Reachable: a delete request was refused while the installation ran, the
\* installation has ended, and a second delete request has run and failed
\* with an exception; the lock is free.
C35_Witness ==
    /\ lastDelete.calls = 2
    /\ lastDelete.status = "error" /\ ~lastDelete.holds
    /\ lastDelete.at.name = "hf_mA.json"
    /\ manifest_dir["hf_mA.json"] # NoManifest
    /\ pc["t1"] = "done"
    /\ ~INSTALL_LOCK


(***************************************************************************)
(* Claims about the MIDI files handed on                                   *)
(***************************************************************************)

\* C36: the set of MIDI files passed to notation generation and to Mix
\* synthesis consists only of per-stem transcriptions and never contains a
\* previously synthesized Mix MIDI (solasola_mixed.mid), on a cache hit for
\* midi as well as on a miss.
C36_NoMixAmongStems ==
    /\ mx.to_abc.midi_paths \subseteq StemMidiNames
    /\ mx.to_mix.midi_paths \subseteq StemMidiNames


(***************************************************************************)
(* xet_manager.py: the XetCacheManager, the threads that call              *)
(* start_download and finish_download, and the thread that runs run()      *)
(* (app.py line 526).  Each method body is one critical section of the     *)
(* condition's lock; wait() gives the lock up.  Times are in seconds.      *)
(***************************************************************************)

XetCallers == {"c1", "c2"}
\* The download durations handed to finish_download, in seconds.
Durations == {0, 61, 200, 241}
\* The clock moves in steps of a minute up to MaxXetClock; no download
\* starts after LastStart or finishes after LastFinish, so that every
\* schedule lies within the clock's range.
XetTick == 60
MaxXetClock == 900
LastStart == 300
LastFinish == 480

\* self.MIN_WAIT_MINUTES (line 52).
MIN_WAIT_MINUTES == 5

NoSchedule == [set |-> FALSE, at |-> 0]
Schedule(at) == [set |-> TRUE, at |-> at]

\* A faulty variant of lines 80-86: the minimum wait is left out.
FinalDelayMinutesNoMinimum(download_duration_seconds) ==
    (3 * ((download_duration_seconds + 59) \div 60)) \div 2

\* Lines 80-86: math.ceil(d / 60), math.floor(m * 1.5) and the minimum.
FinalDelayMinutes(download_duration_seconds) ==
    LET duration_minutes == (download_duration_seconds + 59) \div 60
        calculated_delay_minutes == (3 * duration_minutes) \div 2
    IN IF calculated_delay_minutes > MIN_WAIT_MINUTES
       THEN calculated_delay_minutes ELSE MIN_WAIT_MINUTES

\* A faulty variant of condition.notify(): the notification is lost.
NotifyLost(x) == x

\* condition.notify(): the thread waiting on the condition is woken; with no
\* thread waiting nothing happens.
Notify(x) == [x EXCEPT !.notified = (x.pc \in {"wait", "timed"})]

XetFrame ==
    UNCHANGED <<taskVars, mfVars, cacheVars, fpVars, swVars, reaper, wk, sseVars, dirVars, dl, mx>>

\* A faulty variant of start_download: a pending deletion is left scheduled.
StartDownloadKeepsSchedule(c) ==
    /\ xet.callers[c].state = "idle"
    /\ clock <= LastStart
    /\ xet' = [xet EXCEPT !.active_downloads = @ + 1, !.callers[c].state = "downloading"]
    /\ UNCHANGED clock
    /\ XetFrame

\* start_download (lines 54-65), called by install_model_wrapper at line 75.
StartDownload(c) ==
    /\ xet.callers[c].state = "idle"
    /\ clock <= LastStart
    /\ LET x1 == [xet EXCEPT !.active_downloads = @ + 1, !.callers[c].state = "downloading"]
       IN xet' = IF xet.scheduled_deletion_time.set
                 THEN Notify([x1 EXCEPT !.scheduled_deletion_time = NoSchedule])
                 ELSE x1
    /\ UNCHANGED clock
    /\ XetFrame

\* finish_download (lines 67-97), called in the finally block of
\* install_model_wrapper (line 282) by the thread that called start_download.
FinishDownload(c, download_duration_seconds) ==
    /\ xet.callers[c].state = "downloading"
    /\ clock <= LastFinish
    /\ LET n == IF xet.active_downloads > 0 THEN xet.active_downloads - 1
                ELSE xet.active_downloads
           new_deletion_time == clock + FinalDelayMinutes(download_duration_seconds) * 60
           x1 == [xet EXCEPT !.active_downloads = n,
                             !.callers[c] = [state |-> "done",
                                             duration |-> download_duration_seconds]]
       IN xet' = IF n = 0 /\ (~xet.scheduled_deletion_time.set
                              \/ new_deletion_time > xet.scheduled_deletion_time.at)
                 THEN Notify([x1 EXCEPT !.scheduled_deletion_time = Schedule(new_deletion_time)])
                 ELSE x1
    /\ UNCHANGED clock
    /\ XetFrame

\* run, lines 119-130, from the test of the inner loop on, with the lock
\* held: wait while nothing is scheduled or a download is active, else wait
\* for the scheduled time if it lies ahead, else leave the block.
RunFirstBlock(x) ==
    IF ~x.scheduled_deletion_time.set \/ x.active_downloads > 0
    THEN [x EXCEPT !.pc = "wait", !.notified = FALSE]
    ELSE IF x.scheduled_deletion_time.at - clock > 0
    THEN [x EXCEPT !.pc = "timed", !.until = x.scheduled_deletion_time.at, !.notified = FALSE]
    ELSE [x EXCEPT !.pc = "check", !.notified = FALSE]

\* Line 119: the thread takes the lock at the top of its loop.
RunEnter ==
    /\ xet.pc = "top"
    /\ xet' = RunFirstBlock(xet)
    /\ UNCHANGED clock
    /\ XetFrame

\* Line 122: the wait ends with a notification and the loop tests again.
RunWake ==
    /\ xet.pc = "wait"
    /\ xet.notified
    /\ xet' = RunFirstBlock(xet)
    /\ UNCHANGED clock
    /\ XetFrame

\* Line 130: the timed wait ends, notified or timed out, and the first block
\* is left.
RunTimedEnd ==
    /\ xet.pc = "timed"
    /\ xet.notified \/ clock >= xet.until
    /\ xet' = [xet EXCEPT !.pc = "check", !.notified = FALSE]
    /\ UNCHANGED clock
    /\ XetFrame

\* A faulty variant of lines 133-136: the deletion runs without the second
\* test.
RunCheckNoTest ==
    /\ xet.pc = "check"
    /\ xet' = [xet EXCEPT !.deletions = @ + 1, !.scheduled_deletion_time = NoSchedule,
                          !.pc = "top"]
    /\ UNCHANGED clock
    /\ XetFrame

\* Lines 133-136: with the lock taken again, _delete_xet_cache is called and
\* the schedule cleared when a deletion is scheduled, its time has come and
\* no download is active.  _delete_xet_cache (lines 99-113) removes nothing:
\* its rmtree is commented out.
RunCheck ==
    /\ xet.pc = "check"
    /\ xet' = IF /\ xet.scheduled_deletion_time.set
                 /\ clock >= xet.scheduled_deletion_time.at
                 /\ xet.active_downloads = 0
              THEN [xet EXCEPT !.deletions = @ + 1, !.scheduled_deletion_time = NoSchedule,
                               !.pc = "top"]
              ELSE [xet EXCEPT !.pc = "top"]
    /\ UNCHANGED clock
    /\ XetFrame

\* A minute passes.
XetClock ==
    /\ clock < MaxXetClock
    /\ clock' = clock + XetTick
    /\ UNCHANGED xet
    /\ XetFrame

\* __init__ (lines 43-52) and the start of the thread.
InitXet ==
    /\ xet = [active_downloads |-> 0, scheduled_deletion_time |-> NoSchedule,
              pc |-> "top", until |-> 0, notified |-> FALSE,
              callers |-> [c \in XetCallers |-> [state |-> "idle", duration |-> 0]],
              deletions |-> 0, xet_cache_exists |-> TRUE]
    /\ dl = << >> /\ mx = << >>
    /\ InitFingerprintIdle /\ InitSweepIdle
    /\ InitReaperIdle /\ InitSseIdle /\ InitDirsIdle
    /\ InitTask
    /\ InitManifestIdle
    /\ InitCacheIdle

NextXet ==
    \/ \E c \in XetCallers : StartDownload(c)
    \/ \E c \in XetCallers, d \in Durations : FinishDownload(c, d)
    \/ RunEnter
    \/ RunWake
    \/ RunTimedEnd
    \/ RunCheck
    \/ XetClock

SpecXet == InitXet /\ [][NextXet]_vars

\* With the scheduling the manager rests on: the thread of run() goes on
\* running, a wait ends when it is notified or timed out, and time passes.
SpecXetLive ==
    /\ InitXet /\ [][NextXet]_vars
    /\ WF_vars(RunEnter) /\ WF_vars(RunWake) /\ WF_vars(RunTimedEnd) /\ WF_vars(RunCheck)
    /\ WF_vars(XetClock)

(***************************************************************************)
(* Claims about the XetCacheManager                                        *)
(***************************************************************************)

\* _delete_xet_cache is called in this step.
DeletionRuns == xet'.deletions = xet.deletions + 1
Unfinished == {c \in XetCallers : xet.callers[c].state = "downloading"}

\* C37: the scratch-cache deletion is executed only in a state where the
\* active-download counter is zero, a deletion is scheduled and the scheduled
\* time has been reached; it never runs while a download registered by
\* start_download is still unfinished.
C37_DeletionOnlyWhenDue ==
    [][DeletionRuns =>
          /\ xet.active_downloads = 0
          /\ xet.scheduled_deletion_time.set
          /\ clock >= xet.scheduled_deletion_time.at
          /\ Unfinished = {}]_vars

\* Reachable: a deletion has run after the first download, and the second
\* download is under way.
C37_Witness ==
    /\ xet.deletions = 1
    /\ xet.callers["c1"].state = "done"
    /\ xet.callers["c2"].state = "downloading"


\* Caller c returns from start_download in this step.
StartReturns(c) ==
    xet.callers[c].state = "idle" /\ xet'.callers[c].state = "downloading"

\* C38: start_download increments the active-download counter by one and
\* cancels any pending scratch-cache deletion: immediately after it returns
\* the counter is positive and the scheduled-deletion time is unset (and
\* they stay so as long as a download it registered is unfinished).
C38_StartDownload ==
    /\ [][\A c \in XetCallers :
            StartReturns(c) =>
                /\ xet'.active_downloads = xet.active_downloads + 1
                /\ xet'.active_downloads > 0
                /\ ~xet'.scheduled_deletion_time.set]_vars
    /\ [](Unfinished # {} =>
             xet.active_downloads > 0 /\ ~xet.scheduled_deletion_time.set)

\* Reachable: the second download has started while the deletion scheduled
\* after the first was pending, and the deletion is cancelled.
C38_Witness ==
    /\ xet.callers["c1"].state = "done"
    /\ xet.callers["c2"].state = "downloading"
    /\ xet.deletions = 0
    /\ xet.active_downloads = 1
    /\ ~xet.scheduled_deletion_time.set

\* What the statement gives for the delay in minutes:
\* max(5, floor(1.5 * ceil(duration_seconds / 60))), with ceil and floor by
\* their defining inequalities.
CeilOfSixtieth(d) == CHOOSE m \in 0..(d + 1) : 60 * m >= d /\ 60 * (m - 1) < d
FloorOfThreeHalves(m) == CHOOSE n \in 0..(2 * m) : 2 * n <= 3 * m /\ 3 * m < 2 * (n + 1)
StatedDelayMinutes(d) ==
    LET f == FloorOfThreeHalves(CeilOfSixtieth(d)) IN IF f > 5 THEN f ELSE 5

\* Caller c returns from finish_download in this step.
FinishReturns(c) ==
    xet.callers[c].state = "downloading" /\ xet'.callers[c].state = "done"

\* C39: finish_download decrements the active-download counter without ever
\* making it negative and schedules a deletion only when the counter reaches
\* zero, at max(5, floor(1.5 * ceil(duration_seconds / 60))) minutes from
\* now; a deletion time that is already scheduled and lies later is never
\* moved earlier.
C39_FinishDownload ==
    /\ [](xet.active_downloads >= 0)
    /\ [][\A c \in XetCallers :
            FinishReturns(c) =>
                /\ xet'.active_downloads = xet.active_downloads - 1
                /\ (xet'.scheduled_deletion_time # xet.scheduled_deletion_time) =>
                      /\ xet'.active_downloads = 0
                      /\ xet'.scheduled_deletion_time =
                            Schedule(clock + 60 * StatedDelayMinutes(xet'.callers[c].duration))
                /\ (xet'.active_downloads = 0) => xet'.scheduled_deletion_time.set
                /\ xet.scheduled_deletion_time.set =>
                      /\ xet'.scheduled_deletion_time.set
                      /\ xet'.scheduled_deletion_time.at >= xet.scheduled_deletion_time.at]_vars

\* Reachable: the last download, of 241 seconds, finished at second 120 and
\* the deletion is scheduled 7 minutes later.
C39_Witness ==
    /\ xet.callers["c1"].state = "done"
    /\ xet.callers["c2"] = [state |-> "done", duration |-> 241]
    /\ clock = 120
    /\ xet.scheduled_deletion_time = Schedule(540)

\* Every download has started and finished.
AllFinished == \A c \in XetCallers : xet.callers[c].state = "done"

\* C40: if every started download has finished and no further download
\* starts, the scheduler loop eventually executes the scheduled deletion and
\* clears the scheduled-deletion time; no notification is lost in a way that
\* leaves the loop waiting forever.
C40_DeletionHappens ==
    /\ \A n \in 0..Cardinality(XetCallers) :
          (AllFinished /\ xet.scheduled_deletion_time.set /\ xet.deletions = n)
             ~> (xet.deletions = n + 1 /\ ~xet.scheduled_deletion_time.set)
    /\ [](AllFinished /\ xet.pc = "wait" /\ ~xet.notified => ~xet.scheduled_deletion_time.set)

\* Reachable: both downloads are finished, the deletion scheduled after the
\* last one has run, and the thread waits for the next schedule.
C40_Witness ==
    /\ AllFinished
    /\ xet.deletions = 1
    /\ ~xet.scheduled_deletion_time.set
    /\ xet.pc = "wait"

====
